---- MODULE Spec2Model ----
(***************************************************************************)
(* Model of opensnitch-tui: the AskRule request handler of the gRPC server *)
(* (src/src/server.rs), the Operator Loop that owns the application state  *)
(* (src/src/app.rs) and the capacity-1 decision channel between them.      *)
(*                                                                         *)
(* Time is a discrete clock of seconds.  Option<T> values are sequences:   *)
(* <<>> is None and <<v>> is Some(v).                                      *)
(***************************************************************************)
EXTENDS Naturals, Sequences, FiniteSets, TLC

(***************************************************************************)
(* Bounds of the model.                                                    *)
(***************************************************************************)
\* number of AskRule calls the daemon opens in one run
NCalls == 2
\* scheduling slack: a timer fires at most this long after its deadline
Slack == 1
\* most events waiting on the event channel
MaxEvents == 3
\* number of Notifications calls the daemon opens in one run
NAttaches == 2
\* number of alerts published in one run
NAlertTasks == 3
\* most notifications a reading peer leaves unread
MaxBacklog == 2
\* the alerts of a run are published in its first PostWindow seconds
PostWindow == 2
\* number of Ping and Subscribe calls the daemon makes in one run
NUnary == 2
\* most messages the daemon puts on one inbound Notifications stream
MaxReads == 2

(***************************************************************************)
(* Program constants.                                                      *)
(***************************************************************************)
\* server.rs:75 and server.rs:82, Duration::new(15, 0) / Duration::from_secs(15)
AskRuleTimeoutSecs == 15
\* app.rs:164, mpsc::channel(1)
RuleChannelCapacity == 1
\* app.rs:121, upper limit of the disposition timeout
MaxDispositionTimeout == 115
\* app.rs:292, maximum age of an alert
MaxAlertAgeSecs == 60
\* server.rs:118, mpsc::channel(128)
NotificationChannelCapacity == 128
\* app.rs:133, mpsc::channel(1) of the placeholder sender
DummyChannelCapacity == 1

\* seconds between two instants of the clock
ClockSteps == {5}

\* the clock stops here: late enough for every call to wait out the calls
\* before it and then its own timer
MaxTime == NCalls * AskRuleTimeoutSecs + 5

Calls == 1..NCalls

\* disposition timeouts given to App::new in the runs explored
DispositionTimeouts == {15, 30}
\* temporary-rule lifetimes given to App::new in the runs explored
TempRuleLifetimes == {"Hours12"}
\* widths of the terminal in the runs explored
TermWidths == {80}

(***************************************************************************)
(* constants.rs: enum variants and their daemon strings.                   *)
(***************************************************************************)
Action_get_str(a) ==
    CASE a = "Allow" -> "allow"
      [] a = "Deny" -> "deny"
      [] a = "Reject" -> "reject"

Duration_get_str(d) ==
    CASE d = "UntilRestart" -> "until restart"
      [] d = "Always" -> "always"
      [] d = "Once" -> "once"
      [] d = "Hours12" -> "12h"
      [] d = "Hours1" -> "1h"
      [] d = "Minutes30" -> "30m"
      [] d = "Minutes15" -> "15m"
      [] d = "Minutes5" -> "5m"
      [] d = "Seconds30" -> "30s"

\* constants.rs 172-187: the variant of a duration string, none for any other
Duration_new(str) ==
    CASE str = "until restart" -> <<"UntilRestart">>
      [] str = "always" -> <<"Always">>
      [] str = "once" -> <<"Once">>
      [] str = "12h" -> <<"Hours12">>
      [] str = "1h" -> <<"Hours1">>
      [] str = "30m" -> <<"Minutes30">>
      [] str = "15m" -> <<"Minutes15">>
      [] str = "5m" -> <<"Minutes5">>
      [] str = "30s" -> <<"Seconds30">>
      [] OTHER -> <<>>

\* constants.rs 215-224: the variant of a default-action string, none for any
\* other
DefaultAction_new(str) ==
    CASE str = "allow" -> <<"Allow">>
      [] str = "deny" -> <<"Deny">>
      [] str = "reject" -> <<"Reject">>
      [] OTHER -> <<>>

\* constants.rs 227-233
DefaultAction_get_str(a) ==
    CASE a = "Allow" -> "allow"
      [] a = "Deny" -> "deny"
      [] a = "Reject" -> "reject"

RuleType_get_str(t) ==
    CASE t = "List" -> "list"
      [] t = "Lists" -> "lists"
      [] t = "Simple" -> "simple"
      [] t = "Regexp" -> "regexp"
      [] t = "Network" -> "network"

Operand_get_str(o) ==
    CASE o = "DstIp" -> "dest.ip"
      [] o = "DstHost" -> "dest.host"
      [] o = "UserId" -> "user.id"
      [] o = "ProcessPath" -> "process.path"
      [] o = "DstPort" -> "dest.port"
      [] o = "Protocol" -> "protocol"
      [] o = "List" -> "list"

(***************************************************************************)
(* operator_util.rs                                                        *)
(***************************************************************************)
match_dst_ip(ip) ==
    [type |-> RuleType_get_str("Simple"), operand |-> Operand_get_str("DstIp"),
     data |-> ip, sensitive |-> FALSE, list |-> <<>>]

match_dst_host(host) ==
    [type |-> RuleType_get_str("Simple"), operand |-> Operand_get_str("DstHost"),
     data |-> host, sensitive |-> FALSE, list |-> <<>>]

\* u32::to_string: the decimal digits of n
Digit(n) ==
    CASE n = 0 -> "0" [] n = 1 -> "1" [] n = 2 -> "2" [] n = 3 -> "3" [] n = 4 -> "4"
      [] n = 5 -> "5" [] n = 6 -> "6" [] n = 7 -> "7" [] n = 8 -> "8" [] n = 9 -> "9"

RECURSIVE u32_to_string(_)
u32_to_string(n) ==
    IF n < 10 THEN Digit(n) ELSE u32_to_string(n \div 10) \o Digit(n % 10)

match_user_id(uid) ==
    [type |-> RuleType_get_str("Simple"), operand |-> Operand_get_str("UserId"),
     data |-> u32_to_string(uid), sensitive |-> FALSE, list |-> <<>>]

match_proc_path(ppath) ==
    [type |-> RuleType_get_str("Simple"), operand |-> Operand_get_str("ProcessPath"),
     data |-> ppath, sensitive |-> FALSE, list |-> <<>>]

match_dst_port(port) ==
    [type |-> RuleType_get_str("Simple"), operand |-> Operand_get_str("DstPort"),
     data |-> u32_to_string(port), sensitive |-> FALSE, list |-> <<>>]

match_protocol(protocol) ==
    [type |-> RuleType_get_str("Simple"), operand |-> Operand_get_str("Protocol"),
     data |-> protocol, sensitive |-> FALSE, list |-> <<>>]

(***************************************************************************)
(* Connection descriptors the daemon asks about (pb::Connection, the       *)
(* fields rule synthesis reads).                                           *)
(***************************************************************************)
Connections ==
    { [protocol |-> "tcp", dst_ip |-> "192.128.0.4", dst_host |-> host,
       dst_port |-> 1338, user_id |-> 1000, process_path |-> "/usr/bin/hello"] :
        host \in {"", "suspicious.local"} }

\* the descriptors asked about in the runs of the disposition protocol, which
\* does not read them
AskedConnections == { conn \in Connections : conn.dst_host = "" }

(***************************************************************************)
(* ui.rs BUTTONS: label width, action and duration of each button.         *)
(***************************************************************************)
BUTTONS ==
    << [w |-> 11, action |-> "Allow", duration |-> "UntilRestart"],
       [w |-> 10, action |-> "Deny", duration |-> "UntilRestart"],
       [w |-> 19, action |-> "Allow", duration |-> "Always"],
       [w |-> 18, action |-> "Deny", duration |-> "Always"] >>

VARIABLES
    now,                            \* SystemTime::now(), in seconds
    phase,                          \* where App is: "new", "run", "exited", "panicked"
    running,                        \* App.running
    draw_needed,                    \* local of App::run
    term_width,                     \* frame.area().width
    connection_disposition_timeout, \* App.connection_disposition_timeout
    temp_rule_lifetime,             \* App.temp_rule_lifetime
    events,                         \* the event channel toward the Operator Loop
    current_connection,             \* App.current_connection
    current_alerts,                 \* App.current_alerts
    alert_list_render_offset,       \* App.alert_list_render_offset
    buttons,                        \* App.buttons
    rule_sender,                    \* App.rule_sender: "dummy", "open", "dropped"
    rule_chan,                      \* messages buffered in the decision channel
    recv_lock,                      \* holder of app_to_server_rule_receiver, 0 if free
    calls,                          \* the AskRule calls, one record per call
    did_work,                       \* what tick() returned, after a tick
    last,                           \* the last step, when the Operator Loop took it
    loop_at,                        \* where the Operator Loop is suspended
    notification_sender,            \* App.notification_sender: the channel it sends on
    notif_lock,                     \* holder of the notification_sender mutex
    notif_chans,                    \* the notification channels, one per sender made
    notif_calls,                    \* the Notifications calls, one record per call
    alert_tasks,                    \* the tasks that publish alerts
    matches,                        \* the command-line arguments (main.rs 24)
    init_error,                     \* the error startup ended with, if it did
    default_action,                 \* App.default_action
    rx_pings,                       \* App.rx_pings
    current_stats,                  \* App.current_stats
    unary_calls,                    \* the Ping and Subscribe calls, one record per call
    readers                         \* the reader tasks of the Notifications streams

vars == <<now, phase, running, draw_needed, term_width,
          connection_disposition_timeout, temp_rule_lifetime, events,
          current_connection, current_alerts, alert_list_render_offset, buttons,
          rule_sender, rule_chan, recv_lock, calls, did_work, last, loop_at,
          notification_sender, notif_lock, notif_chans, notif_calls, alert_tasks,
          matches, init_error, default_action, rx_pings, current_stats,
          unary_calls, readers>>

\* the fields of App that the Operator Loop mutates
appState == <<running, current_connection, current_alerts,
              alert_list_render_offset, buttons, rule_sender>>

\* a call that is not under way.  Of a call that is over only its reply is
\* kept, with whether it returned before its deadline
IdleCall == [pc |-> "idle", conn |-> <<>>, arrival |-> 0, expiry_ts |-> 0,
             deadline |-> 0, contended |-> FALSE, reply |-> <<>>, early |-> FALSE]

\* the fields of App and of the server behind the notification_sender mutex,
\* with the position of the Operator Loop inside test_notify
notifVars == <<loop_at, notification_sender, notif_lock, notif_chans, notif_calls>>

\* the sender handles: 0 is the placeholder of App::new, k the one made by the
\* k-th Notifications call
Handles == 0..NAttaches

Attaches == 1..NAttaches

\* the Operator Loop in self.events.next(): it is not inside test_notify
AtEvents == [at |-> "events", via |-> 0]

\* a Notifications call that has not been made; nth is its rank among the
\* calls that have taken the mutex, 0 before it does
IdleStream == [pc |-> "idle", nth |-> 0]

AlertTasks == 1..NAlertTasks

\* a task that has not started
IdleTask == [pc |-> "idle", kind |-> "", alert |-> <<>>, reply |-> <<>>]

\* what startup leaves behind: the arguments, the error and the default action
startVars == <<matches, init_error, default_action>>

\* the statistics of App
statVars == <<rx_pings, current_stats>>

\* startup, the statistics, the unary calls and the stream readers
rpcVars == <<startVars, statVars, unary_calls, readers>>

UnaryCalls == 1..NUnary

\* a Ping or Subscribe call that has not been made; sent counts the events
\* its handler has put on the event channel
IdleUnary == [pc |-> "idle", rpc |-> "", request |-> <<>>, reply |-> <<>>, sent |-> 0]

\* the reader task of a Notifications call that has not been made.  `ended`
\* tells that the inbound stream has delivered its end or its error; reads,
\* errors and sent count the messages taken off the stream, those of them
\* that carried the error code, and the events the task has sent
IdleReader == [pc |-> "none", stream_grpc_event |-> <<>>, alert |-> <<>>,
               stop |-> FALSE, ended |-> FALSE, reads |-> 0, errors |-> 0, sent |-> 0]

\* the arguments cli.rs gives when none is passed (cli.rs 11, 17, 24, 31)
DefaultBind == "127.0.0.1:50051"

(***************************************************************************)
(* App::new, for arguments it accepts: a temporary-rule lifetime, a        *)
(* disposition timeout and a default action of the sets given, on a        *)
(* terminal of one of the widths given.                                    *)
(***************************************************************************)
AppNewWith(lifetimes, timeouts, widths, actions) ==
    /\ now = 0
    /\ phase = "new"
    /\ running = TRUE
    /\ draw_needed = TRUE
    /\ term_width \in widths
    /\ connection_disposition_timeout \in timeouts
    /\ temp_rule_lifetime \in lifetimes
    /\ events = <<>>
    /\ current_connection = <<>>
    /\ current_alerts = <<>>
    /\ alert_list_render_offset = 0
    /\ buttons = <<>>
    /\ rule_sender = "dummy"
    /\ rule_chan = <<>>
    /\ recv_lock = 0
    /\ calls = [c \in Calls |-> IdleCall]
    /\ did_work = FALSE
    /\ last = "-"
    /\ loop_at = AtEvents
    /\ notification_sender = 0
    /\ notif_lock = "free"
    /\ notif_chans = [h \in Handles |->
                        [buf |-> <<>>, rx |-> IF h = 0 THEN "dropped" ELSE "none"]]
    /\ notif_calls = [k \in Attaches |-> IdleStream]
    /\ alert_tasks = [t \in AlertTasks |-> IdleTask]
    /\ default_action \in actions
    /\ matches = [ip_port |-> DefaultBind,
                  default_action |-> DefaultAction_get_str(default_action),
                  temp_rule_lifetime |-> Duration_get_str(temp_rule_lifetime),
                  dispo_seconds |-> connection_disposition_timeout]
    /\ init_error = <<>>
    /\ rx_pings = 0
    /\ current_stats = <<>>
    /\ unary_calls = [u \in UnaryCalls |-> IdleUnary]
    /\ readers = [k \in Attaches |-> IdleReader]

\* App::new with the default action of cli.rs 24
AppNew(lifetimes, timeouts, widths) == AppNewWith(lifetimes, timeouts, widths, {"Deny"})

Init == AppNew(TempRuleLifetimes, DispositionTimeouts, TermWidths)


\* make_rule matching the destination address whatever the host name
make_rule_ip_only(cc, action, duration) ==
    IF cc = <<>> THEN <<>>
    ELSE
      LET conn == cc[1].connection
          dst_operator == match_dst_ip(conn.dst_ip)
          dst_label == IF conn.dst_host = "" THEN conn.dst_ip ELSE conn.dst_host
          action_str == Action_get_str(action)
      IN << [created |-> 0,
             name |-> action_str \o "-" \o dst_label,
             description |-> "",
             enabled |-> TRUE,
             precedence |-> FALSE,
             nolog |-> FALSE,
             action |-> action_str,
             duration |-> Duration_get_str(duration),
             operator |-> [type |-> dst_operator.type,
                           operand |-> dst_operator.operand,
                           data |-> dst_operator.data,
                           sensitive |-> FALSE,
                           list |-> <<>>]] >>

\* make_rule naming the rule after the action, the duration and the label
make_rule_duration_in_name(cc, action, duration) ==
    IF cc = <<>> THEN <<>>
    ELSE
      LET conn == cc[1].connection
          dst_operator == IF conn.dst_host = "" THEN match_dst_ip(conn.dst_ip)
                          ELSE match_dst_host(conn.dst_host)
          dst_label == IF conn.dst_host = "" THEN conn.dst_ip ELSE conn.dst_host
          action_str == Action_get_str(action)
      IN << [created |-> 0,
             name |-> action_str \o "-" \o Duration_get_str(duration)
                         \o "-" \o dst_label,
             description |-> "",
             enabled |-> TRUE,
             precedence |-> FALSE,
             nolog |-> FALSE,
             action |-> action_str,
             duration |-> Duration_get_str(duration),
             operator |-> [type |-> dst_operator.type,
                           operand |-> dst_operator.operand,
                           data |-> dst_operator.data,
                           sensitive |-> FALSE,
                           list |-> <<>>]] >>

\* make_rule stamping the rule with the time it was made at
make_rule_stamped(cc, action, duration) ==
    IF cc = <<>> THEN <<>>
    ELSE
      LET conn == cc[1].connection
          dst_operator == IF conn.dst_host = "" THEN match_dst_ip(conn.dst_ip)
                          ELSE match_dst_host(conn.dst_host)
          dst_label == IF conn.dst_host = "" THEN conn.dst_ip ELSE conn.dst_host
          action_str == Action_get_str(action)
      IN << [created |-> cc[1].expiry_ts,
             name |-> action_str \o "-" \o dst_label,
             description |-> "",
             enabled |-> TRUE,
             precedence |-> FALSE,
             nolog |-> FALSE,
             action |-> action_str,
             duration |-> Duration_get_str(duration),
             operator |-> [type |-> dst_operator.type,
                           operand |-> dst_operator.operand,
                           data |-> dst_operator.data,
                           sensitive |-> FALSE,
                           list |-> <<>>]] >>

(***************************************************************************)
(* App::make_rule (app.rs 355-395): the rule for the pending connection,   *)
(* <<>> when none is pending.                                              *)
(***************************************************************************)
make_rule(cc, action, duration) ==
    IF cc = <<>> THEN <<>>
    ELSE
      LET conn == cc[1].connection
          dst_operator == IF conn.dst_host = "" THEN match_dst_ip(conn.dst_ip)
                          ELSE match_dst_host(conn.dst_host)
          dst_label == IF conn.dst_host = "" THEN conn.dst_ip ELSE conn.dst_host
          action_str == Action_get_str(action)
      IN << [created |-> 0,
             name |-> action_str \o "-" \o dst_label,
             description |-> "",
             enabled |-> TRUE,
             precedence |-> FALSE,
             nolog |-> FALSE,
             action |-> action_str,
             duration |-> Duration_get_str(duration),
             operator |-> [type |-> dst_operator.type,
                           operand |-> dst_operator.operand,
                           data |-> dst_operator.data,
                           sensitive |-> FALSE,
                           list |-> <<>>]] >>

(***************************************************************************)
(* mpsc::Sender::try_send on the decision channel: fails when the buffer   *)
(* is full.  (The receiver lives in the server for the whole run.)         *)
(***************************************************************************)
try_send_ok(chan) == Len(chan) < RuleChannelCapacity

\* make_and_send_rule without its `if let Some(rule)`: a default rule is sent
\* when make_rule returns none
make_and_send_rule_unchecked(cc, chan, action, duration) ==
    LET maybe_rule == make_rule(cc, action, duration)
        rule == IF maybe_rule = <<>> THEN [name |-> ""] ELSE maybe_rule[1]
        req == IF cc = <<>> THEN 0 ELSE cc[1].req
    IN IF ~try_send_ok(chan)
       THEN [cc |-> cc, chan |-> chan, panicked |-> TRUE, sent |-> FALSE]
       ELSE [cc |-> <<>>,
             chan |-> Append(chan, [rule |-> rule, req |-> req, late |-> FALSE]),
             panicked |-> FALSE, sent |-> TRUE]

(***************************************************************************)
(* App::make_and_send_rule with App::send_rule (app.rs 397-410), as the    *)
(* new pending slot, the new channel content and whether send_rule         *)
(* panicked.  A message on the channel is the rule together with the call  *)
(* whose connection it was made for, whether that call was already over    *)
(* when the operator decided, and the arguments make_rule was given.       *)
(***************************************************************************)
make_and_send_rule(cc, chan, action, duration) ==
    LET maybe_rule == make_rule(cc, action, duration) IN
    IF maybe_rule = <<>>
    THEN [cc |-> cc, chan |-> chan, panicked |-> FALSE, sent |-> FALSE]
    ELSE IF ~try_send_ok(chan)
    THEN [cc |-> cc, chan |-> chan, panicked |-> TRUE, sent |-> FALSE]
    ELSE [cc |-> <<>>,
          chan |-> Append(chan, [rule |-> maybe_rule[1],
                                 req |-> cc[1].req,
                                 late |-> calls[cc[1].req].pc \in {"done", "abandoned"},
                                 conn |-> cc[1].connection,
                                 action |-> action,
                                 duration |-> duration]),
          panicked |-> FALSE, sent |-> TRUE]

(***************************************************************************)
(* App::update_button_areas (ui.rs 28-55).  Columns are relative to the    *)
(* left edge of the connection panel's inner area, whose width is the      *)
(* frame width less the two border columns.                                *)
(***************************************************************************)
RECURSIVE ButtonX(_)
ButtonX(i) == IF i = 1 THEN 0 ELSE ButtonX(i - 1) + BUTTONS[i - 1].w + 1

RECURSIVE FittingButtons(_, _)
FittingButtons(i, inner_width) ==
    IF i > Len(BUTTONS) THEN <<>>
    ELSE (IF ButtonX(i) + BUTTONS[i].w <= inner_width
          THEN << [x |-> ButtonX(i), width |-> BUTTONS[i].w,
                   action |-> BUTTONS[i].action, duration |-> BUTTONS[i].duration] >>
          ELSE <<>>) \o FittingButtons(i + 1, inner_width)

update_button_areas(cc, width) ==
    IF cc = <<>> THEN <<>>
    ELSE FittingButtons(1, IF width >= 2 THEN width - 2 ELSE 0)

\* tick with `age.as_secs() > 60` for `age.as_secs() >= 60`
tick_age_strict(cc, alerts, offset, t) ==
    LET expired == cc # <<>> /\ t >= cc[1].expiry_ts
        evict == /\ alerts # <<>>
                 /\ t >= Head(alerts).timestamp
                 /\ t - Head(alerts).timestamp > MaxAlertAgeSecs
    IN [cc |-> IF expired THEN <<>> ELSE cc,
        alerts |-> IF evict THEN Tail(alerts) ELSE alerts,
        offset |-> IF evict /\ offset = Len(alerts) - 1 /\ offset > 0
                   THEN offset - 1 ELSE offset,
        did_work |-> expired \/ evict]

\* tick leaving the last alert of the queue alone however old it is
tick_keeps_last(cc, alerts, offset, t) ==
    LET expired == cc # <<>> /\ t >= cc[1].expiry_ts
        evict == /\ Len(alerts) > 1
                 /\ t >= Head(alerts).timestamp
                 /\ t - Head(alerts).timestamp >= MaxAlertAgeSecs
    IN [cc |-> IF expired THEN <<>> ELSE cc,
        alerts |-> IF evict THEN Tail(alerts) ELSE alerts,
        offset |-> IF evict /\ offset = Len(alerts) - 1 /\ offset > 0
                   THEN offset - 1 ELSE offset,
        did_work |-> expired \/ evict]

\* tick returning whether the pending connection expired, whatever it did to
\* the alerts
tick_reports_expiry_only(cc, alerts, offset, t) ==
    LET expired == cc # <<>> /\ t >= cc[1].expiry_ts
        evict == /\ alerts # <<>>
                 /\ t >= Head(alerts).timestamp
                 /\ t - Head(alerts).timestamp >= MaxAlertAgeSecs
    IN [cc |-> IF expired THEN <<>> ELSE cc,
        alerts |-> IF evict THEN Tail(alerts) ELSE alerts,
        offset |-> IF evict /\ offset = Len(alerts) - 1 /\ offset > 0
                   THEN offset - 1 ELSE offset,
        did_work |-> expired]

\* tick lowering the render offset at every eviction
tick_offset_always(cc, alerts, offset, t) ==
    LET expired == cc # <<>> /\ t >= cc[1].expiry_ts
        evict == /\ alerts # <<>>
                 /\ t >= Head(alerts).timestamp
                 /\ t - Head(alerts).timestamp >= MaxAlertAgeSecs
    IN [cc |-> IF expired THEN <<>> ELSE cc,
        alerts |-> IF evict THEN Tail(alerts) ELSE alerts,
        offset |-> IF evict /\ offset > 0 THEN offset - 1 ELSE offset,
        did_work |-> expired \/ evict]

\* tick without the expiry of the pending connection
tick_no_expiry(cc, alerts, offset, t) ==
    LET evict == /\ alerts # <<>>
                 /\ t >= Head(alerts).timestamp
                 /\ t - Head(alerts).timestamp >= MaxAlertAgeSecs
    IN [cc |-> cc,
        alerts |-> IF evict THEN Tail(alerts) ELSE alerts,
        offset |-> IF evict /\ offset = Len(alerts) - 1 /\ offset > 0
                   THEN offset - 1 ELSE offset,
        did_work |-> evict]

\* tick without the correction of the render offset
tick_no_offset_fix(cc, alerts, offset, t) ==
    LET expired == cc # <<>> /\ t >= cc[1].expiry_ts
        evict == /\ alerts # <<>>
                 /\ t >= Head(alerts).timestamp
                 /\ t - Head(alerts).timestamp >= MaxAlertAgeSecs
    IN [cc |-> IF expired THEN <<>> ELSE cc,
        alerts |-> IF evict THEN Tail(alerts) ELSE alerts,
        offset |-> offset,
        did_work |-> expired \/ evict]

\* tick with `now > conn.expiry_ts` for `now >= conn.expiry_ts`
tick_strict(cc, alerts, offset, t) ==
    LET expired == cc # <<>> /\ t > cc[1].expiry_ts
        evict == /\ alerts # <<>>
                 /\ t >= Head(alerts).timestamp
                 /\ t - Head(alerts).timestamp >= MaxAlertAgeSecs
    IN [cc |-> IF expired THEN <<>> ELSE cc,
        alerts |-> IF evict THEN Tail(alerts) ELSE alerts,
        offset |-> IF evict /\ offset = Len(alerts) - 1 /\ offset > 0
                   THEN offset - 1 ELSE offset,
        did_work |-> expired \/ evict]

(***************************************************************************)
(* App::tick (app.rs 274-306) at time t: the new pending slot, alert queue *)
(* and render offset, and the value returned.                              *)
(***************************************************************************)
tick(cc, alerts, offset, t) ==
    LET expired == cc # <<>> /\ t >= cc[1].expiry_ts
        evict == /\ alerts # <<>>
                 /\ t >= Head(alerts).timestamp
                 /\ t - Head(alerts).timestamp >= MaxAlertAgeSecs
    IN [cc |-> IF expired THEN <<>> ELSE cc,
        alerts |-> IF evict THEN Tail(alerts) ELSE alerts,
        offset |-> IF evict /\ offset = Len(alerts) - 1 /\ offset > 0
                   THEN offset - 1 ELSE offset,
        did_work |-> expired \/ evict]


(***************************************************************************)
(* The Operator Loop, App::run (app.rs 162-215).                           *)
(***************************************************************************)
\* `last` names the kind of input the Operator Loop handled in the step that
\* led to the state: "tick", "key" (a decision key), "quit_key", "click" (a
\* mouse event on a button), "mouse" (any other mouse event) or "event"; it is
\* "-" after a step of another task
NoOp == "-"

cfgVars == <<term_width, connection_disposition_timeout, temp_rule_lifetime>>
alertVars == <<current_alerts, alert_list_render_offset>>
serverVars == <<recv_lock, calls>>

\* the end of one iteration of the loop (app.rs 206-212): draw when needed
EndOfIteration(draw) ==
    /\ buttons' = IF draw THEN update_button_areas(current_connection', term_width)
                  ELSE buttons
    /\ draw_needed' = FALSE

\* the loop is waiting in self.events.next()
LoopWaiting == phase = "run" /\ running /\ loop_at = AtEvents

\* app.rs 162-173: the decision channel is created and the server spawned
Run ==
    /\ phase = "new"
    /\ phase' = "run"
    /\ rule_sender' = "open"
    /\ last' = NoOp
    /\ did_work' = FALSE
    /\ UNCHANGED <<now, running, draw_needed, cfgVars, rpcVars, notifVars, alert_tasks, events, current_connection,
                   alertVars, buttons, rule_chan, serverVars>>

\* Event::Tick (app.rs 182)
Tick ==
    /\ LoopWaiting
    /\ LET r == tick(current_connection, current_alerts, alert_list_render_offset, now)
       IN /\ current_connection' = r.cc
          /\ current_alerts' = r.alerts
          /\ alert_list_render_offset' = r.offset
          /\ did_work' = r.did_work
          /\ EndOfIteration(draw_needed \/ r.did_work)
    /\ last' = "tick"
    /\ UNCHANGED <<now, phase, running, cfgVars, rpcVars, notifVars, alert_tasks, events, rule_sender, rule_chan,
                   serverVars>>

\* what a decision of the operator does to the loop: make_and_send_rule, then
\* either the panic of send_rule unwinds run() and drops the App with its
\* rule_sender, or the iteration ends with a draw when `draw` holds
Decide(action, duration, draw) ==
    LET r == make_and_send_rule(current_connection, rule_chan, action, duration)
    IN /\ current_connection' = r.cc
       /\ rule_chan' = r.chan
       /\ IF r.panicked
          THEN /\ phase' = "panicked"
               /\ rule_sender' = "dropped"
               /\ UNCHANGED <<buttons, draw_needed>>
          ELSE /\ UNCHANGED <<phase, rule_sender>>
               /\ EndOfIteration(draw)

\* the decision keys of App::handle_key_events (app.rs 226-237)
DecisionKeys == {"a", "d", "j", "l"}

\* the decision keys pressed in the runs explored
KeysPressed == {"a"}

KeyAction(k) == IF k \in {"a", "j"} THEN "Allow" ELSE "Deny"

KeyDuration(k) == IF k \in {"a", "d"} THEN temp_rule_lifetime ELSE "Always"

\* a key press of A, D, J or L (app.rs 184-189, 226-237)
KeyDecision(k) ==
    /\ LoopWaiting
    /\ Decide(KeyAction(k), KeyDuration(k), TRUE)
    /\ last' = "key"
    /\ did_work' = FALSE
    /\ UNCHANGED <<now, running, cfgVars, rpcVars, notifVars, alert_tasks, events, alertVars, serverVars>>

\* Ctrl-C (app.rs 222-224): a Quit event is put on the event channel
KeyCtrlC ==
    /\ LoopWaiting
    /\ Len(events) < MaxEvents
    /\ events' = Append(events, [type |-> "Quit"])
    /\ last' = "quit_key"
    /\ did_work' = FALSE
    /\ UNCHANGED <<now, phase, running, cfgVars, rpcVars, notifVars, alert_tasks, current_connection, alertVars,
                   rule_sender, rule_chan, serverVars>>
    /\ EndOfIteration(TRUE)

\* the button under a mouse position, 0 when there is none (app.rs 259-268)
ButtonAt(btns, column, on_button_row) ==
    IF on_button_row /\ \E i \in 1..Len(btns) :
                          column >= btns[i].x /\ column < btns[i].x + btns[i].width
    THEN CHOOSE i \in 1..Len(btns) :
            /\ column >= btns[i].x /\ column < btns[i].x + btns[i].width
            /\ \A j \in 1..(i - 1) :
                  ~(column >= btns[j].x /\ column < btns[j].x + btns[j].width)
    ELSE 0

\* columns of the mouse positions explored: one inside a button, one outside
ClickColumns == {15, 70}

\* the mouse events explored: a left-button release at each column of the button
\* row and an event of another kind
MouseEvents ==
    {[left_up |-> TRUE, column |-> col, on_button_row |-> TRUE] : col \in ClickColumns}
    \cup {[left_up |-> FALSE, column |-> 15, on_button_row |-> TRUE]}

\* a mouse event (app.rs 190-192, 255-270)
Mouse(left_up, column, on_button_row) ==
    /\ LoopWaiting
    /\ LET b == IF left_up THEN ButtonAt(buttons, column, on_button_row) ELSE 0
       IN /\ IF b = 0
             THEN /\ UNCHANGED <<phase, current_connection, rule_sender, rule_chan>>
                  /\ EndOfIteration(draw_needed)
             ELSE Decide(buttons[b].action, buttons[b].duration, TRUE)
          /\ last' = IF b = 0 THEN "mouse" ELSE "click"
          /\ did_work' = FALSE
    /\ UNCHANGED <<now, running, cfgVars, rpcVars, notifVars, alert_tasks, events, alertVars, serverVars>>

\* the AskRule arm scrolling the alert list back to its top as well
HandleAskRule_resets_offset ==
    /\ LoopWaiting
    /\ events # <<>>
    /\ Head(events).type = "AskRule"
    /\ events' = Tail(events)
    /\ current_connection' = <<Head(events).evt>>
    /\ alert_list_render_offset' = 0
    /\ last' = "event"
    /\ did_work' = FALSE
    /\ EndOfIteration(TRUE)
    /\ UNCHANGED <<now, phase, running, cfgVars, rpcVars, notifVars, alert_tasks, current_alerts,
                   rule_sender, rule_chan, serverVars>>

\* AppEvent::AskRule (app.rs 200, 340-343)
HandleAskRule ==
    /\ LoopWaiting
    /\ events # <<>>
    /\ Head(events).type = "AskRule"
    /\ events' = Tail(events)
    /\ current_connection' = <<Head(events).evt>>
    /\ last' = "event"
    /\ did_work' = FALSE
    /\ EndOfIteration(TRUE)
    /\ UNCHANGED <<now, phase, running, cfgVars, rpcVars, notifVars, alert_tasks, alertVars, rule_sender, rule_chan,
                   serverVars>>

\* AppEvent::Quit (app.rs 202, 309-311): the loop ends, run() returns and the
\* App is dropped with its rule_sender
HandleQuit ==
    /\ LoopWaiting
    /\ events # <<>>
    /\ Head(events).type = "Quit"
    /\ events' = Tail(events)
    /\ running' = FALSE
    /\ phase' = "exited"
    /\ rule_sender' = "dropped"
    /\ last' = "event"
    /\ did_work' = FALSE
    /\ UNCHANGED <<now, cfgVars, rpcVars, notifVars, alert_tasks, current_connection, alertVars, rule_chan,
                   serverVars>>
    /\ EndOfIteration(TRUE)


(***************************************************************************)
(* OpenSnitchUIGrpcServer::ask_rule (server.rs 65-90), one task per call.  *)
(* pc of a call: "idle" (not yet made), "locking" (event sent, in          *)
(* app_to_server_rule_receiver.lock().await), "waiting" (in                *)
(* timeout(.., recv_lock.recv()).await), "done" (returned), "abandoned"    *)
(* (dropped by the transport before it returned).                          *)
(***************************************************************************)
Outstanding(c) == calls[c].pc \in {"locking", "waiting"}

\* the disposition of call c awaits the operator: its event is on the event
\* channel or its connection is in the pending slot
AwaitsOperator(c) ==
    \/ \E i \in 1..Len(events) : events[i].type = "AskRule" /\ events[i].evt.req = c
    \/ current_connection # <<>> /\ current_connection[1].req = c

\* ask_rule's match with the arms of Ok(None) and Err(elapsed) exchanged
ask_rule_reply_swapped(maybe_rule) ==
    IF maybe_rule.tag = "Ok"
    THEN IF maybe_rule.val # <<>>
         THEN [code |-> "Ok", message |-> "", rule |-> maybe_rule.val]
         ELSE [code |-> "Internal", message |-> "No rule created: deadline has elapsed",
               rule |-> <<>>]
    ELSE [code |-> "Internal", message |-> "sender somehow closed", rule |-> <<>>]

\* server.rs 83-89: the reply for the result of timeout(.., recv())
ask_rule_reply(maybe_rule) ==
    IF maybe_rule.tag = "Ok"
    THEN IF maybe_rule.val # <<>>
         THEN [code |-> "Ok", message |-> "", rule |-> maybe_rule.val]
         ELSE [code |-> "Internal", message |-> "sender somehow closed", rule |-> <<>>]
    ELSE [code |-> "Internal", message |-> "No rule created: deadline has elapsed",
          rule |-> <<>>]

\* server.rs 73-79: the event is built with its expiry and sent; what follows
\* is the wait for the receiver lock
AskRuleArrive(c, conn) ==
    /\ phase = "run"
    /\ calls[c].pc = "idle"
    /\ \A d \in 1..(c - 1) : calls[d].pc # "idle"
    /\ calls' = [calls EXCEPT ![c] =
                    [@ EXCEPT !.pc = "locking", !.conn = <<conn>>, !.arrival = now,
                              !.expiry_ts = now + AskRuleTimeoutSecs,
                              !.contended = \E d \in Calls \ {c} :
                                               Outstanding(d) /\ AwaitsOperator(d)]]
    /\ events' = Append(events, [type |-> "AskRule",
                                 evt |-> [connection |-> conn,
                                          expiry_ts |-> now + AskRuleTimeoutSecs,
                                          req |-> c]])
    /\ last' = NoOp
    /\ did_work' = FALSE
    /\ UNCHANGED <<now, phase, running, draw_needed, cfgVars, rpcVars, notifVars, alert_tasks, current_connection,
                   alertVars, buttons, rule_sender, rule_chan, recv_lock>>

\* the receiver taken without its lock: every call polls the channel as soon
\* as it has sent its event
AskRuleLock_unlocked(c) ==
    /\ calls[c].pc = "locking"
    /\ recv_lock' = c
    /\ calls' = [calls EXCEPT ![c] =
                    [@ EXCEPT !.pc = "waiting",
                              !.deadline = now + AskRuleTimeoutSecs]]
    /\ last' = NoOp
    /\ did_work' = FALSE
    /\ UNCHANGED <<now, phase, running, draw_needed, cfgVars, rpcVars, notifVars, alert_tasks, events,
                   current_connection, alertVars, buttons, rule_sender, rule_chan>>

\* server.rs 81-82: the lock is acquired and the timer of timeout() starts
AskRuleLock(c) ==
    /\ calls[c].pc = "locking"
    /\ recv_lock = 0
    /\ recv_lock' = c
    /\ calls' = [calls EXCEPT ![c] =
                    [@ EXCEPT !.pc = "waiting",
                              !.deadline = now + AskRuleTimeoutSecs]]
    /\ last' = NoOp
    /\ did_work' = FALSE
    /\ UNCHANGED <<now, phase, running, draw_needed, cfgVars, rpcVars, notifVars, alert_tasks, events,
                   current_connection, alertVars, buttons, rule_sender, rule_chan>>

\* the call returns `reply`; the guard of the receiver lock is dropped
Return(c, maybe_rule) ==
    /\ calls' = [calls EXCEPT ![c] =
                    [IdleCall EXCEPT !.pc = "done",
                                     !.reply = <<ask_rule_reply(maybe_rule)>>,
                                     !.early = now < calls[c].deadline]]
    /\ recv_lock' = 0

\* recv() is ready with a rule: timeout() polls it before the timer
AskRuleRecv(c) ==
    /\ calls[c].pc = "waiting"
    /\ rule_chan # <<>>
    /\ rule_chan' = Tail(rule_chan)
    /\ Return(c, [tag |-> "Ok", val |-> <<Head(rule_chan)>>])
    /\ last' = NoOp
    /\ did_work' = FALSE
    /\ UNCHANGED <<now, phase, running, draw_needed, cfgVars, rpcVars, notifVars, alert_tasks, events,
                   current_connection, alertVars, buttons, rule_sender>>

\* recv() is ready with None: the channel is empty and its sender is dropped
AskRuleClosed(c) ==
    /\ calls[c].pc = "waiting"
    /\ rule_chan = <<>>
    /\ rule_sender = "dropped"
    /\ Return(c, [tag |-> "Ok", val |-> <<>>])
    /\ last' = NoOp
    /\ did_work' = FALSE
    /\ UNCHANGED <<now, phase, running, draw_needed, cfgVars, rpcVars, notifVars, alert_tasks, events,
                   current_connection, alertVars, buttons, rule_sender, rule_chan>>

\* ask_rule awaiting recv() without timeout(): no timer ever fires
AskRuleElapsed_no_timer(c) ==
    /\ FALSE
    /\ calls[c].pc = "waiting"
    /\ UNCHANGED vars

\* recv() is pending and the timer has fired
AskRuleElapsed(c) ==
    /\ calls[c].pc = "waiting"
    /\ rule_chan = <<>>
    /\ rule_sender # "dropped"
    /\ now >= calls[c].deadline
    /\ Return(c, [tag |-> "Err", val |-> <<>>])
    /\ last' = NoOp
    /\ did_work' = FALSE
    /\ UNCHANGED <<now, phase, running, draw_needed, cfgVars, rpcVars, notifVars, alert_tasks, events,
                   current_connection, alertVars, buttons, rule_sender, rule_chan>>

\* the daemon gives the call up: the transport drops the handler's future
\* and with it the lock guard, if it holds one
AskRuleAbandon(c) ==
    /\ Outstanding(c)
    /\ calls' = [calls EXCEPT ![c] = [IdleCall EXCEPT !.pc = "abandoned"]]
    /\ recv_lock' = IF recv_lock = c THEN 0 ELSE recv_lock
    /\ last' = NoOp
    /\ did_work' = FALSE
    /\ UNCHANGED <<now, phase, running, draw_needed, cfgVars, rpcVars, notifVars, alert_tasks, events,
                   current_connection, alertVars, buttons, rule_sender, rule_chan>>

(***************************************************************************)
(* The clock.  A task that can run does so before the clock moves: a call  *)
(* takes the free lock and a ready recv() returns at once, and a fired     *)
(* timer is served within Slack.                                           *)
(***************************************************************************)
ServerReady(c) ==
    \/ calls[c].pc = "locking" /\ recv_lock = 0
    \/ calls[c].pc = "waiting" /\ (rule_chan # <<>> \/ rule_sender = "dropped")

\* the clock advances by d, not beyond the horizon
TimePassesUntil(d, horizon) ==
    /\ phase = "run"
    /\ now + d <= horizon
    /\ \A c \in Calls : ~ServerReady(c)
    /\ \A c \in Calls : calls[c].pc = "waiting" => now + d <= calls[c].deadline + Slack
    /\ now' = now + d
    /\ last' = NoOp
    /\ did_work' = FALSE
    /\ UNCHANGED <<phase, running, draw_needed, cfgVars, rpcVars, notifVars, alert_tasks, events, current_connection,
                   alertVars, buttons, rule_sender, rule_chan, serverVars>>

TimePasses(d) == TimePassesUntil(d, MaxTime)

(***************************************************************************)
(* Spec: the disposition protocol.  The daemon opens AskRule calls and may *)
(* give them up, the operator presses decision keys and clicks, ticks      *)
(* arrive and the clock advances.                                          *)
(***************************************************************************)
Next ==
    \/ Run
    \/ Tick
    \/ \E k \in KeysPressed : KeyDecision(k)
    \/ \E m \in MouseEvents : Mouse(m.left_up, m.column, m.on_button_row)
    \/ HandleAskRule
    \/ \E c \in Calls, conn \in AskedConnections : AskRuleArrive(c, conn)
    \/ \E c \in Calls : AskRuleLock(c)
    \/ \E c \in Calls : AskRuleRecv(c)
    \/ \E c \in Calls : AskRuleClosed(c)
    \/ \E c \in Calls : AskRuleElapsed(c)
    \/ \E c \in Calls : AskRuleAbandon(c)
    \/ \E d \in ClockSteps : TimePasses(d)

Spec == Init /\ [][Next]_vars

(***************************************************************************)
(* C1.  An AskRule request that arrives while another disposition is still *)
(* pending is rejected: it is not left waiting for the receiver lock and   *)
(* its connection is neither queued toward the operator nor put in the     *)
(* pending slot.  (`contended` marks such a request from its arrival on.)  *)
(***************************************************************************)
C1_SecondRequestRejected ==
    \A c \in Calls : calls[c].contended => ~Outstanding(c) /\ ~AwaitsOperator(c)

(***************************************************************************)
(* C2.  No AskRule call returns a rule that the operator decided for a     *)
(* connection whose own call had already returned or been abandoned.       *)
(***************************************************************************)
C2_LateDecisionDropped ==
    \A c \in Calls :
        (calls[c].pc = "done" /\ calls[c].reply[1].rule # <<>>)
            => ~calls[c].reply[1].rule[1].late

(***************************************************************************)
(* C3.  A call that returns the timeout error does so no earlier than T    *)
(* and no later than T + Slack after it arrived, T being the configured    *)
(* disposition timeout.                                                    *)
(***************************************************************************)
ElapsedMessage == "No rule created: deadline has elapsed"

ReturnsElapsed(c) ==
    /\ calls[c].pc = "waiting"
    /\ calls'[c].pc = "done"
    /\ calls'[c].reply[1].message = ElapsedMessage

C3_TimeoutWindow ==
    [][\A c \in Calls :
          ReturnsElapsed(c) =>
              /\ now >= calls[c].arrival + connection_disposition_timeout
              /\ now <= calls[c].arrival + connection_disposition_timeout + Slack]_vars

(***************************************************************************)
(* C4.  A call whose deadline elapsed returns status deadline_exceeded,    *)
(* and status internal is returned only once the sender of the decision    *)
(* channel is gone.                                                        *)
(***************************************************************************)
C4_TimeoutIsDeadlineExceeded ==
    \A c \in Calls :
        calls[c].pc = "done" =>
            /\ calls[c].reply[1].message = ElapsedMessage
                  => calls[c].reply[1].code = "DeadlineExceeded"
            /\ calls[c].reply[1].code = "Internal" => rule_sender = "dropped"

(***************************************************************************)
(* C5.  The expiry a call publishes and the deadline it waits for are both *)
(* its arrival time plus the configured disposition timeout.               *)
(***************************************************************************)
C5_ConfiguredTimeoutUsed ==
    \A c \in Calls :
        /\ Outstanding(c)
              => calls[c].expiry_ts = calls[c].arrival + connection_disposition_timeout
        /\ calls[c].pc = "waiting"
              => calls[c].deadline = calls[c].arrival + connection_disposition_timeout


(***************************************************************************)
(* LiveSpec: the disposition protocol to its end.  The operator may also   *)
(* quit; the calls arrive early enough for the clock to reach their        *)
(* deadlines, no call is given up, and the runtime keeps running the tasks *)
(* that can run and the clock keeps advancing.                             *)
(***************************************************************************)
ServerProgress ==
    \E c \in Calls : AskRuleLock(c) \/ AskRuleRecv(c) \/ AskRuleClosed(c)
                        \/ AskRuleElapsed(c)

NextLive ==
    \/ Run
    \/ Tick
    \/ \E k \in KeysPressed : KeyDecision(k)
    \/ KeyCtrlC
    \/ HandleAskRule
    \/ HandleQuit
    \/ \E c \in Calls, conn \in AskedConnections :
          now + NCalls * AskRuleTimeoutSecs <= MaxTime /\ AskRuleArrive(c, conn)
    \/ \E c \in Calls : AskRuleLock(c)
    \/ \E c \in Calls : AskRuleRecv(c)
    \/ \E c \in Calls : AskRuleClosed(c)
    \/ \E c \in Calls : AskRuleElapsed(c)
    \/ \E d \in ClockSteps : TimePasses(d)

LiveSpec ==
    /\ Init
    /\ [][NextLive]_vars
    /\ WF_vars(ServerProgress)
    /\ WF_vars(\E d \in ClockSteps : TimePasses(d))

(***************************************************************************)
(* C6.  Every AskRule call returns exactly once with one outcome decided   *)
(* by the race: the rule at the head of the decision channel when one is   *)
(* there, the timeout error when the channel is empty, its sender alive    *)
(* and the deadline reached; and every call does return.                   *)
(***************************************************************************)
ReturnsInStep(c) == calls[c].pc = "waiting" /\ calls'[c].pc = "done"

C6_ReturnsOnceByRace ==
    /\ [][\A c \in Calls :
            /\ calls[c].pc = "done" => calls'[c] = calls[c]
            /\ calls'[c].pc = "done" /\ calls[c].pc # "done" => ReturnsInStep(c)
            /\ ReturnsInStep(c) /\ rule_chan # <<>>
                  => /\ calls'[c].reply[1].code = "Ok"
                     /\ calls'[c].reply[1].rule = <<Head(rule_chan)>>
                     /\ rule_chan' = Tail(rule_chan)
            /\ ReturnsInStep(c) /\ rule_chan = <<>> /\ rule_sender # "dropped"
                  => /\ calls'[c].reply[1].message = ElapsedMessage
                     /\ calls'[c].reply[1].rule = <<>>
                     /\ now >= calls[c].deadline]_vars
    /\ \A c \in Calls : Outstanding(c) ~> (calls[c].pc = "done")

\* a call has returned a rule and another the timeout error
C6_Witness ==
    \E c, d \in Calls :
        /\ calls[c].pc = "done" /\ calls[c].reply[1].code = "Ok"
        /\ calls[d].pc = "done" /\ calls[d].reply[1].message = ElapsedMessage

(***************************************************************************)
(* C7.  A tick that finds a pending connection whose expiry is at or       *)
(* before the current time leaves the pending slot empty; any other tick   *)
(* leaves the slot as it was.                                              *)
(***************************************************************************)
C7_TickClearsExpired ==
    [][last' = "tick" =>
         IF current_connection # <<>> /\ current_connection[1].expiry_ts <= now
         THEN current_connection' = <<>>
         ELSE current_connection' = current_connection]_vars

\* a tick has just cleared the expired connection of the only call made
\* while that call is still waiting for its rule
C7_Witness ==
    /\ last = "tick" /\ did_work
    /\ current_connection = <<>> /\ events = <<>> /\ rule_chan = <<>>
    /\ calls[1].pc = "waiting" /\ now >= calls[1].expiry_ts
    /\ \A c \in Calls \ {1} : calls[c].pc = "idle"

(***************************************************************************)
(* C8.  With no connection pending, make_rule returns no rule and a        *)
(* decision key or a mouse event changes nothing: no rule is sent, the     *)
(* loop goes on and no field of App changes.                               *)
(***************************************************************************)
Durations == {"UntilRestart", "Always", "Once", "Hours12", "Hours1", "Minutes30",
              "Minutes15", "Minutes5", "Seconds30"}

C8_NoPendingDecisionNoop ==
    [][(current_connection = <<>> /\ last' \in {"key", "click", "mouse"}) =>
          /\ \A a \in {"Allow", "Deny"}, d \in Durations :
                make_rule(current_connection, a, d) = <<>>
          /\ UNCHANGED <<appState, rule_chan, phase, events>>]_vars

\* a decision key has just been handled with nothing pending, after a call
\* was made
C8_Witness ==
    /\ last = "key" /\ phase = "run"
    /\ current_connection = <<>> /\ rule_chan = <<>>
    /\ calls[1].pc # "idle"

(***************************************************************************)
(* C9.  A decision made while a connection is pending sends exactly one    *)
(* rule on the decision channel and clears the pending slot, and the loop  *)
(* goes on.                                                                *)
(***************************************************************************)
C9_DecisionSendsOneRule ==
    [][(current_connection # <<>> /\ last' \in {"key", "click"}) =>
          /\ Len(rule_chan') = Len(rule_chan) + 1
          /\ current_connection' = <<>>
          /\ phase' = "run"]_vars

(***************************************************************************)
(* C10.  A call waiting on the decision channel when it is empty and its   *)
(* sender is gone returns status internal ("sender somehow closed") in     *)
(* its next step, whatever its deadline.                                   *)
(***************************************************************************)
ClosedMessage == "sender somehow closed"

C10_ClosedIsInternal ==
    [][\A c \in Calls :
          (/\ calls[c].pc = "waiting"
           /\ rule_chan = <<>>
           /\ rule_sender = "dropped"
           /\ calls'[c] # calls[c])
          => /\ calls'[c].pc = "done"
             /\ calls'[c].reply[1].code = "Internal"
             /\ calls'[c].reply[1].message = ClosedMessage
             /\ calls'[c].reply[1].rule = <<>>]_vars

\* the operator has quit and a call has returned the closure error before
\* its deadline
C10_Witness ==
    /\ phase = "exited"
    /\ \E c \in Calls :
          /\ calls[c].pc = "done"
          /\ calls[c].reply[1].message = ClosedMessage
          /\ calls[c].early

(***************************************************************************)
(* The notification sender (App.notification_sender, shared with the       *)
(* server): notifications() of server.rs 113-181 and App::test_notify of   *)
(* app.rs 325-338.  A channel is its buffer and the state of its receiver: *)
(* "none" before the channel is made, "alive", "dropped".                  *)
(***************************************************************************)
Capacity(h) == IF h = 0 THEN DummyChannelCapacity ELSE NotificationChannelCapacity

\* the notification of test_notify (app.rs 328-336); on a channel it is kept
\* with the handle that was current when it was sent
TestNotification == [id |-> 123, type |-> 14]

\* mpsc::Sender::send on channel ch once it can complete: an error when the
\* receiver is gone, else the message is buffered
sender_send(ch, msg) ==
    IF ch.rx # "alive" THEN [ch |-> ch, res |-> "Err"]
    ELSE [ch |-> [ch EXCEPT !.buf = Append(@, msg)], res |-> "Ok"]

\* send() is suspended: the receiver is alive and the buffer is full
SendSuspended(h) ==
    notif_chans[h].rx = "alive" /\ Len(notif_chans[h].buf) >= Capacity(h)

\* KeyCode::Char('t') (app.rs 225): a TestNotify event is put on the event
\* channel
KeyT ==
    /\ LoopWaiting
    /\ Len(events) < MaxEvents
    /\ events' = Append(events, [type |-> "TestNotify"])
    /\ last' = "key_t"
    /\ did_work' = FALSE
    /\ UNCHANGED <<now, phase, running, cfgVars, rpcVars, notifVars, alert_tasks, current_connection,
                   alertVars, rule_sender, rule_chan, serverVars>>
    /\ EndOfIteration(TRUE)

\* AppEvent::TestNotify (app.rs 201, 326): the loop takes the mutex and starts
\* the send on the sender it finds there
HandleTestNotify ==
    /\ LoopWaiting
    /\ events # <<>>
    /\ Head(events).type = "TestNotify"
    /\ notif_lock = "free"
    /\ events' = Tail(events)
    /\ notif_lock' = "loop"
    /\ loop_at' = [at |-> "notify_send", via |-> notification_sender]
    /\ draw_needed' = TRUE
    /\ last' = "event"
    /\ did_work' = FALSE
    /\ UNCHANGED <<now, phase, running, cfgVars, rpcVars, notification_sender, notif_chans,
                   notif_calls, alert_tasks, current_connection, alertVars, buttons,
                   rule_sender, rule_chan, serverVars>>

\* test_notify with .unwrap() on the result of send()
TestNotifySend_unwrap ==
    /\ phase = "run"
    /\ loop_at.at = "notify_send"
    /\ ~SendSuspended(loop_at.via)
    /\ LET r == sender_send(notif_chans[loop_at.via],
                            [msg |-> TestNotification, current |-> notification_sender])
       IN /\ notif_chans' = [notif_chans EXCEPT ![loop_at.via] = r.ch]
          /\ last' = IF r.res = "Ok" THEN "notify_ok" ELSE "notify_err"
          /\ phase' = IF r.res = "Ok" THEN phase ELSE "panicked"
          /\ rule_sender' = IF r.res = "Ok" THEN rule_sender ELSE "dropped"
    /\ notif_lock' = "free"
    /\ loop_at' = AtEvents
    /\ did_work' = FALSE
    /\ UNCHANGED <<now, running, cfgVars, rpcVars, notification_sender, notif_calls,
                   alert_tasks, events, current_connection, alertVars, rule_chan,
                   serverVars>>
    /\ EndOfIteration(TRUE)

\* app.rs 327-337 and 206-212: send() completes, its result is dropped, the
\* guard of the mutex is dropped and the iteration ends with a draw
TestNotifySend ==
    /\ phase = "run"
    /\ loop_at.at = "notify_send"
    /\ ~SendSuspended(loop_at.via)
    /\ LET r == sender_send(notif_chans[loop_at.via],
                            [msg |-> TestNotification, current |-> notification_sender])
       IN /\ notif_chans' = [notif_chans EXCEPT ![loop_at.via] = r.ch]
          /\ last' = IF r.res = "Ok" THEN "notify_ok" ELSE "notify_err"
    /\ notif_lock' = "free"
    /\ loop_at' = AtEvents
    /\ did_work' = FALSE
    /\ UNCHANGED <<now, phase, running, cfgVars, rpcVars, notification_sender, notif_calls,
                   alert_tasks, events, current_connection, alertVars, rule_sender,
                   rule_chan, serverVars>>
    /\ EndOfIteration(TRUE)

\* server.rs 117-121: the call makes its channel and spawns the reader of the
\* inbound stream; what follows is the wait for the mutex
NotificationsCall(k) ==
    /\ phase = "run"
    /\ notif_calls[k].pc = "idle"
    /\ \A j \in 1..(k - 1) : notif_calls[j].pc # "idle"
    /\ notif_calls' = [notif_calls EXCEPT ![k].pc = "locking"]
    /\ notif_chans' = [notif_chans EXCEPT ![k].rx = "alive"]
    /\ readers' = [readers EXCEPT ![k].pc = "reading"]
    /\ last' = NoOp
    /\ did_work' = FALSE
    /\ UNCHANGED <<now, phase, running, draw_needed, cfgVars, startVars, statVars,
                   unary_calls, loop_at,
                   notification_sender, notif_lock, alert_tasks, events,
                   current_connection, alertVars, buttons, rule_sender, rule_chan,
                   serverVars>>

\* the number of calls that have taken the mutex
Attached == Cardinality({k \in Attaches : notif_calls[k].nth > 0})

\* notifications() storing its sender without taking the mutex
NotificationsAttach_unlocked(k) ==
    /\ notif_calls[k].pc = "locking"
    /\ notification_sender' = k
    /\ notif_calls' = [notif_calls EXCEPT ![k] = [pc |-> "streaming", nth |-> Attached + 1]]
    /\ last' = NoOp
    /\ did_work' = FALSE
    /\ UNCHANGED <<now, phase, running, draw_needed, cfgVars, rpcVars, loop_at, notif_lock,
                   notif_chans, alert_tasks, events, current_connection, alertVars,
                   buttons, rule_sender, rule_chan, serverVars>>

\* server.rs 175-180: under the mutex the new sender replaces the current
\* one, which is dropped; the guard is dropped as the call returns its stream
NotificationsAttach(k) ==
    /\ notif_calls[k].pc = "locking"
    /\ notif_lock = "free"
    /\ notification_sender' = k
    /\ notif_calls' = [notif_calls EXCEPT ![k] = [pc |-> "streaming", nth |-> Attached + 1]]
    /\ last' = NoOp
    /\ did_work' = FALSE
    /\ UNCHANGED <<now, phase, running, draw_needed, cfgVars, rpcVars, loop_at, notif_lock,
                   notif_chans, alert_tasks, events, current_connection, alertVars,
                   buttons, rule_sender, rule_chan, serverVars>>

\* the transport takes the next notification off the stream of call k and
\* delivers it to the peer
ClientRead(k) ==
    /\ notif_calls[k].pc = "streaming"
    /\ notif_chans[k].buf # <<>>
    /\ notif_chans' = [notif_chans EXCEPT ![k].buf = Tail(@)]
    /\ last' = NoOp
    /\ did_work' = FALSE
    /\ UNCHANGED <<now, phase, running, draw_needed, cfgVars, rpcVars, loop_at,
                   notification_sender, notif_lock, notif_calls, alert_tasks, events,
                   current_connection, alertVars, buttons, rule_sender, rule_chan,
                   serverVars>>

\* the peer of call k disconnects: the transport drops the stream and with it
\* the receiver and what it buffered
ClientDisconnect(k) ==
    /\ notif_calls[k].pc = "streaming"
    /\ notif_calls' = [notif_calls EXCEPT ![k].pc = "closed"]
    /\ notif_chans' = [notif_chans EXCEPT ![k] = [buf |-> <<>>, rx |-> "dropped"]]
    /\ last' = NoOp
    /\ did_work' = FALSE
    /\ UNCHANGED <<now, phase, running, draw_needed, cfgVars, rpcVars, loop_at,
                   notification_sender, notif_lock, alert_tasks, events,
                   current_connection, alertVars, buttons, rule_sender, rule_chan,
                   serverVars>>

(***************************************************************************)
(* The alerts: post_alert (server.rs 46-63), the reader task of a          *)
(* Notifications stream (server.rs 121-169), AppEvent::Alert (app.rs 199)  *)
(* and the Up and Down keys (app.rs 238-248).  A task that publishes an    *)
(* alert first reads the clock and then sends the event.                   *)
(***************************************************************************)
\* alert.rs 13-19
Priority_new(v) == IF v = 0 THEN "Low" ELSE IF v = 1 THEN "Medium" ELSE "High"

\* alert.rs 31-37
Type_new(v) == IF v = 0 THEN "Error" ELSE IF v = 1 THEN "Warning" ELSE "Info"

\* the pb::Alert the daemon posts in the runs explored
PostedAlert == [id |-> 5, priority |-> 0, type |-> 2]

\* the alert a task makes at time t: Alert::new for post_alert (alert.rs
\* 77-93), the alert of the reader task for a stream that ended (server.rs
\* 145-151)
new_alert(kind, t) ==
    IF kind = "post_alert"
    THEN [timestamp |-> t, priority |-> Priority_new(PostedAlert.priority),
          type |-> Type_new(PostedAlert.type)]
    ELSE [timestamp |-> t, priority |-> "High", type |-> "Warning"]

AlertKinds == {"post_alert", "stream_closed"}

\* SystemTime::now() is read and the alert built (server.rs 53-55, 146); the
\* reader of a stream publishes that it ended once, then stops (server.rs 152)
AlertStamp(t, kind) ==
    /\ phase = "run"
    /\ alert_tasks[t].pc = "idle"
    /\ \A u \in 1..(t - 1) : alert_tasks[u].pc # "idle"
    /\ kind = "stream_closed" =>
          Cardinality({u \in AlertTasks : alert_tasks[u].kind = "stream_closed"})
              < Cardinality({k \in Attaches : notif_calls[k].pc # "idle"})
    /\ alert_tasks' = [alert_tasks EXCEPT ![t] =
                          [pc |-> "stamped", kind |-> kind,
                           alert |-> <<new_alert(kind, now)>>, reply |-> <<>>]]
    /\ last' = NoOp
    /\ did_work' = FALSE
    /\ UNCHANGED <<now, phase, running, draw_needed, cfgVars, rpcVars, notifVars, events,
                   current_connection, alertVars, buttons, rule_sender, rule_chan,
                   serverVars>>

\* server.rs 58-60
post_alert_reply(request) == [id |-> request.id]

\* the event is sent on the event channel (server.rs 51-56, 145); post_alert
\* then returns its reply (server.rs 58-62)
AlertSend(t) ==
    /\ alert_tasks[t].pc = "stamped"
    /\ events' = Append(events, [type |-> "Alert", alert |-> alert_tasks[t].alert[1]])
    /\ alert_tasks' = [alert_tasks EXCEPT ![t] =
                          [@ EXCEPT !.pc = "sent", !.alert = <<>>,
                                    !.reply = IF alert_tasks[t].kind = "post_alert"
                                              THEN <<post_alert_reply(PostedAlert)>>
                                              ELSE <<>>]]
    /\ last' = NoOp
    /\ did_work' = FALSE
    /\ UNCHANGED <<now, phase, running, draw_needed, cfgVars, rpcVars, notifVars,
                   current_connection, alertVars, buttons, rule_sender, rule_chan,
                   serverVars>>

\* the loop with an empty arm for AppEvent::Alert: the event is taken and
\* nothing is pushed
HandleAlert_dropped ==
    /\ LoopWaiting
    /\ events # <<>>
    /\ Head(events).type = "Alert"
    /\ events' = Tail(events)
    /\ last' = "event"
    /\ did_work' = FALSE
    /\ UNCHANGED <<now, phase, running, cfgVars, rpcVars, notifVars, alert_tasks,
                   current_connection, alertVars, rule_sender, rule_chan, serverVars>>
    /\ EndOfIteration(TRUE)

\* AppEvent::Alert (app.rs 199): the alert is pushed at the back of the queue
HandleAlert ==
    /\ LoopWaiting
    /\ events # <<>>
    /\ Head(events).type = "Alert"
    /\ events' = Tail(events)
    /\ current_alerts' = Append(current_alerts, Head(events).alert)
    /\ last' = "event"
    /\ did_work' = FALSE
    /\ UNCHANGED <<now, phase, running, cfgVars, rpcVars, notifVars, alert_tasks,
                   current_connection, alert_list_render_offset, rule_sender,
                   rule_chan, serverVars>>
    /\ EndOfIteration(TRUE)

\* KeyCode::Up (app.rs 238-240)
KeyUp ==
    /\ LoopWaiting
    /\ alert_list_render_offset' =
          IF alert_list_render_offset > 0 THEN alert_list_render_offset - 1 ELSE 0
    /\ last' = "key_up"
    /\ did_work' = FALSE
    /\ UNCHANGED <<now, phase, running, cfgVars, rpcVars, notifVars, alert_tasks, events,
                   current_connection, current_alerts, rule_sender, rule_chan,
                   serverVars>>
    /\ EndOfIteration(TRUE)

\* KeyCode::Down (app.rs 241-248)
KeyDown ==
    /\ LoopWaiting
    /\ alert_list_render_offset' =
          IF current_alerts # <<>>
          THEN (IF alert_list_render_offset + 1 < Len(current_alerts) - 1
                THEN alert_list_render_offset + 1 ELSE Len(current_alerts) - 1)
          ELSE alert_list_render_offset
    /\ last' = "key_down"
    /\ did_work' = FALSE
    /\ UNCHANGED <<now, phase, running, cfgVars, rpcVars, notifVars, alert_tasks, events,
                   current_connection, current_alerts, rule_sender, rule_chan,
                   serverVars>>
    /\ EndOfIteration(TRUE)

(***************************************************************************)
(* The unary calls without a wait: ping (server.rs 32-44) and subscribe    *)
(* (server.rs 92-111), with AppEvent::Update (app.rs 198, 318-322).  pc of *)
(* a call: "idle" (not yet made), "arrived" (its handler is spawned),      *)
(* "done" (returned its reply), "panicked".                                *)
(***************************************************************************)
\* the pb::PingRequest messages of the runs explored: one carries statistics,
\* one carries none
PingRequests ==
    {[id |-> 7, stats |-> <<[uptime |-> 10]>>], [id |-> 8, stats |-> <<>>]}

\* the pb::ClientConfig messages of the runs explored
SubscribeRequests ==
    {[id |-> 3, name |-> "opensnitchd", version |-> "1.6", is_firewall_running |-> TRUE,
      config |-> cfg, log_level |-> 1] :
        cfg \in {"", "{\"DefaultAction\":\"allow\",\"LogLevel\":2}"}}

\* the transport hands a call to its handler
UnaryArrive(u, rpc, request) ==
    /\ phase = "run"
    /\ unary_calls[u].pc = "idle"
    /\ \A v \in 1..(u - 1) : unary_calls[v].pc # "idle"
    /\ unary_calls' = [unary_calls EXCEPT ![u] =
                          [IdleUnary EXCEPT !.pc = "arrived", !.rpc = rpc,
                                            !.request = <<request>>]]
    /\ last' = NoOp
    /\ did_work' = FALSE
    /\ UNCHANGED <<now, phase, running, draw_needed, cfgVars, startVars, statVars,
                   readers, notifVars, alert_tasks, events, current_connection,
                   alertVars, buttons, rule_sender, rule_chan, serverVars>>

\* server.rs 39-41
ping_reply(request) == [id |-> request.id]

\* ping returning its reply without sending the event
Ping_silent(u) ==
    /\ unary_calls[u].pc = "arrived"
    /\ unary_calls[u].rpc = "ping"
    /\ LET request == unary_calls[u].request[1]
       IN IF request.stats = <<>>
          THEN unary_calls' = [unary_calls EXCEPT ![u].pc = "panicked"]
          ELSE unary_calls' = [unary_calls EXCEPT ![u] =
                                  [@ EXCEPT !.pc = "done",
                                            !.reply = <<ping_reply(request)>>]]
    /\ last' = NoOp
    /\ did_work' = FALSE
    /\ UNCHANGED <<now, phase, running, draw_needed, cfgVars, startVars, statVars,
                   readers, notifVars, alert_tasks, events, current_connection,
                   alertVars, buttons, rule_sender, rule_chan, serverVars>>

\* ping served only while no AskRule call is under way
Ping_serial(u) ==
    /\ unary_calls[u].pc = "arrived"
    /\ unary_calls[u].rpc = "ping"
    /\ \A c \in Calls : ~Outstanding(c)
    /\ LET request == unary_calls[u].request[1]
       IN IF request.stats = <<>>
          THEN /\ unary_calls' = [unary_calls EXCEPT ![u].pc = "panicked"]
               /\ UNCHANGED events
          ELSE /\ events' = Append(events, [type |-> "Update",
                                            stats |-> request.stats[1]])
               /\ unary_calls' = [unary_calls EXCEPT ![u] =
                                     [@ EXCEPT !.pc = "done", !.sent = @ + 1,
                                               !.reply = <<ping_reply(request)>>]]
    /\ last' = NoOp
    /\ did_work' = FALSE
    /\ UNCHANGED <<now, phase, running, draw_needed, cfgVars, startVars, statVars,
                   readers, notifVars, alert_tasks, current_connection, alertVars,
                   buttons, rule_sender, rule_chan, serverVars>>

\* server.rs 32-44: stats.unwrap() panics on a request without statistics;
\* otherwise the Update event is sent and the reply returned
Ping(u) ==
    /\ unary_calls[u].pc = "arrived"
    /\ unary_calls[u].rpc = "ping"
    /\ LET request == unary_calls[u].request[1]
       IN IF request.stats = <<>>
          THEN /\ unary_calls' = [unary_calls EXCEPT ![u].pc = "panicked"]
               /\ UNCHANGED events
          ELSE /\ events' = Append(events, [type |-> "Update",
                                            stats |-> request.stats[1]])
               /\ unary_calls' = [unary_calls EXCEPT ![u] =
                                     [@ EXCEPT !.pc = "done", !.sent = @ + 1,
                                               !.reply = <<ping_reply(request)>>]]
    /\ last' = NoOp
    /\ did_work' = FALSE
    /\ UNCHANGED <<now, phase, running, draw_needed, cfgVars, startVars, statVars,
                   readers, notifVars, alert_tasks, current_connection, alertVars,
                   buttons, rule_sender, rule_chan, serverVars>>

\* serde_json::to_string of OpenSnitchDaemonConfig (opensnitch_json.rs 5-11,
\* server.rs 100-103), for a string without characters to escape
OpenSnitchDaemonConfig_json(DefaultAction) ==
    "{\"DefaultAction\":\"" \o DefaultAction \o "\"}"

\* subscribe returning the request as it came
subscribe_reply_echo(request, default_action_str) == request

\* server.rs 99-107: the reply is the request with its config rewritten
subscribe_reply(request, default_action_str) ==
    [request EXCEPT !.config = OpenSnitchDaemonConfig_json(default_action_str)]

\* server.rs 92-111; the default action string is that of server.rs 203
Subscribe(u) ==
    /\ unary_calls[u].pc = "arrived"
    /\ unary_calls[u].rpc = "subscribe"
    /\ unary_calls' = [unary_calls EXCEPT ![u] =
                          [@ EXCEPT !.pc = "done",
                                    !.reply = <<subscribe_reply(
                                                   unary_calls[u].request[1],
                                                   DefaultAction_get_str(default_action))>>]]
    /\ last' = NoOp
    /\ did_work' = FALSE
    /\ UNCHANGED <<now, phase, running, draw_needed, cfgVars, startVars, statVars,
                   readers, notifVars, alert_tasks, events, current_connection,
                   alertVars, buttons, rule_sender, rule_chan, serverVars>>

\* update_stats leaving the counter as it is
update_stats_uncounted(pings, stats) == [rx_pings |-> pings, current_stats |-> <<stats>>]

\* App::update_stats (app.rs 318-322): the new counter and statistics.
\* saturating_add stops at u64::MAX, 2^64 - 1, which no run explored comes
\* near.  (The event of server.rs 37 carries no peer.)
update_stats(pings, stats) == [rx_pings |-> pings + 1, current_stats |-> <<stats>>]

\* AppEvent::Update (app.rs 198)
HandleUpdate ==
    /\ LoopWaiting
    /\ events # <<>>
    /\ Head(events).type = "Update"
    /\ events' = Tail(events)
    /\ LET r == update_stats(rx_pings, Head(events).stats)
       IN /\ rx_pings' = r.rx_pings
          /\ current_stats' = r.current_stats
    /\ last' = "event"
    /\ did_work' = FALSE
    /\ UNCHANGED <<now, phase, running, cfgVars, startVars, unary_calls, readers,
                   notifVars, alert_tasks, current_connection, alertVars,
                   rule_sender, rule_chan, serverVars>>
    /\ EndOfIteration(TRUE)

(***************************************************************************)
(* The reader task of a Notifications call (server.rs 121-169).  pc of a   *)
(* reader: "none" (not spawned), "reading" (in in_stream.message().await), *)
(* "stamped" (the alert is built, before tx.send), "stopped" (after        *)
(* break).                                                                 *)
(***************************************************************************)
\* what in_stream.message() resolves to in the runs explored: a reply whose
\* code() is Ok or Error, the end of the stream, an error of the transport
InboundReplies ==
    {[tag |-> "msg", code |-> "Ok", data |-> "task stopped"],
     [tag |-> "msg", code |-> "Error", data |-> "task failed"],
     [tag |-> "msg", code |-> "Error", data |-> "rule not found"]}

StreamEnd == [tag |-> "end"]

StreamError == [tag |-> "err", status |-> "status: Unavailable"]

InboundItems == InboundReplies \cup {StreamEnd, StreamError}

\* the reader making an alert of every reply, whatever its code
notifications_reader_any_code(item, t) ==
    IF item.tag = "msg"
    THEN [alert |-> <<[timestamp |-> t, priority |-> "Medium", type |-> "Error",
                       what |-> "Generic", msg |-> item.data]>>,
          stop |-> FALSE]
    ELSE IF item.tag = "end"
    THEN [alert |-> <<[timestamp |-> t, priority |-> "High", type |-> "Warning",
                       what |-> "Generic", msg |-> "gRPC stream closed by daemon"]>>,
          stop |-> TRUE]
    ELSE [alert |-> <<[timestamp |-> t, priority |-> "High", type |-> "Warning",
                       what |-> "Generic",
                       msg |-> "gRPC error from daemon: " \o item.status]>>,
          stop |-> TRUE]

\* the reader without its break statements
notifications_reader_no_break(item, t) ==
    IF item.tag = "msg"
    THEN IF item.code = "Error"
         THEN [alert |-> <<[timestamp |-> t, priority |-> "Medium", type |-> "Error",
                            what |-> "Generic", msg |-> item.data]>>,
               stop |-> FALSE]
         ELSE [alert |-> <<>>, stop |-> FALSE]
    ELSE IF item.tag = "end"
    THEN [alert |-> <<[timestamp |-> t, priority |-> "High", type |-> "Warning",
                       what |-> "Generic", msg |-> "gRPC stream closed by daemon"]>>,
          stop |-> FALSE]
    ELSE [alert |-> <<[timestamp |-> t, priority |-> "High", type |-> "Warning",
                       what |-> "Generic",
                       msg |-> "gRPC error from daemon: " \o item.status]>>,
          stop |-> FALSE]

\* one turn of the loop of server.rs 122-168 on what message() resolved to at
\* time t: the alert to send, if any, and whether the loop breaks after it
notifications_reader(item, t) ==
    IF item.tag = "msg"
    THEN IF item.code = "Error"
         THEN [alert |-> <<[timestamp |-> t, priority |-> "Medium", type |-> "Error",
                            what |-> "Generic", msg |-> item.data]>>,
               stop |-> FALSE]
         ELSE [alert |-> <<>>, stop |-> FALSE]
    ELSE IF item.tag = "end"
    THEN [alert |-> <<[timestamp |-> t, priority |-> "High", type |-> "Warning",
                       what |-> "Generic", msg |-> "gRPC stream closed by daemon"]>>,
          stop |-> TRUE]
    ELSE [alert |-> <<[timestamp |-> t, priority |-> "High", type |-> "Warning",
                       what |-> "Generic",
                       msg |-> "gRPC error from daemon: " \o item.status]>>,
          stop |-> TRUE]

\* server.rs 123-166 up to tx.send: message() resolves to item.  The daemon
\* puts at most MaxReads replies on a stream, and a stream that has ended or
\* failed resolves to its end from then on
ReaderMessage(k, item) ==
    /\ readers[k].pc = "reading"
    /\ item.tag = "msg" => readers[k].reads < MaxReads
    /\ readers[k].ended => item = StreamEnd
    /\ LET r == notifications_reader(item, now)
       IN readers' = [readers EXCEPT ![k] =
                        [@ EXCEPT !.pc = IF r.alert = <<>> THEN "reading" ELSE "stamped",
                                  !.stream_grpc_event =
                                      IF r.alert = <<>> THEN <<>> ELSE <<item>>,
                                  !.alert = r.alert,
                                  !.stop = r.stop,
                                  !.ended = @ \/ item.tag # "msg",
                                  !.reads = IF item.tag = "msg" THEN @ + 1 ELSE @,
                                  !.errors = IF item.tag = "msg" /\ item.code = "Error"
                                             THEN @ + 1 ELSE @]]
    /\ last' = NoOp
    /\ did_work' = FALSE
    /\ UNCHANGED <<now, phase, running, draw_needed, cfgVars, startVars, statVars,
                   unary_calls, notifVars, alert_tasks, events, current_connection,
                   alertVars, buttons, rule_sender, rule_chan, serverVars>>

\* tx.send of the alert built (server.rs 131-138, 145-151, 158-164), then the
\* next turn of the loop or the break
ReaderSend(k) ==
    /\ readers[k].pc = "stamped"
    /\ events' = Append(events, [type |-> "Alert", alert |-> readers[k].alert[1],
                                 stream |-> k])
    /\ readers' = [readers EXCEPT ![k] =
                      [@ EXCEPT !.pc = IF readers[k].stop THEN "stopped" ELSE "reading",
                                !.stream_grpc_event = <<>>,
                                !.alert = <<>>,
                                !.sent = @ + 1]]
    /\ last' = NoOp
    /\ did_work' = FALSE
    /\ UNCHANGED <<now, phase, running, draw_needed, cfgVars, startVars, statVars,
                   unary_calls, notifVars, alert_tasks, current_connection,
                   alertVars, buttons, rule_sender, rule_chan, serverVars>>

(***************************************************************************)
(* RuleSpec: rule synthesis through the decisions of the operator.  The    *)
(* daemon asks about every descriptor, the operator presses every decision *)
(* key and clicks every button, and the calls return the rules; the clock  *)
(* stands still.                                                           *)
(***************************************************************************)
\* the actions synthesis is checked for
Actions == {"Allow", "Deny", "Reject"}

\* temporary-rule lifetimes given to App::new in the runs of RuleSpec
RuleLifetimes == {"Once", "Hours12"}

\* a left-button release inside each of the four buttons
RuleMouseEvents ==
    {[left_up |-> TRUE, column |-> col, on_button_row |-> TRUE] : col \in {5, 15, 30, 50}}

RuleInit == AppNew(RuleLifetimes, {30}, TermWidths)

RuleNext ==
    \/ Run
    \/ \E k \in DecisionKeys : KeyDecision(k)
    \/ \E m \in RuleMouseEvents : Mouse(m.left_up, m.column, m.on_button_row)
    \/ HandleAskRule
    \/ \E c \in Calls, conn \in Connections : AskRuleArrive(c, conn)
    \/ \E c \in Calls : AskRuleLock(c)
    \/ \E c \in Calls : AskRuleRecv(c)

RuleSpec == RuleInit /\ [][RuleNext]_vars

\* the rules sent so far that are still in the system, each with the arguments
\* it was made from: those on the decision channel and those the calls returned
SentRules ==
    {rule_chan[i] : i \in 1..Len(rule_chan)}
    \cup {calls[c].reply[1].rule[1] :
            c \in {d \in Calls : calls[d].pc = "done" /\ calls[d].reply[1].rule # <<>>}}

\* the descriptors synthesis is checked on in a state: the pending one
Pending == IF current_connection = <<>> THEN {} ELSE {current_connection[1].connection}

(***************************************************************************)
(* C11.  The rule made for a descriptor, an action and a duration has one  *)
(* operator of type simple without children: operand dest.ip and data      *)
(* dst_ip when dst_host is empty, operand dest.host and data dst_host      *)
(* otherwise.  This holds of make_rule on the pending descriptor for every *)
(* action and duration, and of every rule sent.                            *)
(***************************************************************************)
SimpleDestinationOperator(op, conn) ==
    /\ op.type = "simple"
    /\ op.list = <<>>
    /\ conn.dst_host = "" => op.operand = "dest.ip" /\ op.data = conn.dst_ip
    /\ conn.dst_host # "" => op.operand = "dest.host" /\ op.data = conn.dst_host

RuleFields(r, conn, a, d) ==
    /\ r.name = Action_get_str(a) \o "-"
                   \o (IF conn.dst_host # "" THEN conn.dst_host ELSE conn.dst_ip)
    /\ r.action = Action_get_str(a)
    /\ r.duration = Duration_get_str(d)
    /\ r.enabled = TRUE
    /\ r.precedence = FALSE
    /\ r.nolog = FALSE
    /\ r.operator.sensitive = FALSE
    /\ (conn.dst_host = "" /\ conn.dst_ip = "192.128.0.4" /\ a = "Allow" /\ d = "Once")
          => /\ r.name = "allow-192.128.0.4"
             /\ r.action = "allow"
             /\ r.duration = "once"

json_string(str) == "\"" \o str \o "\""

json_bool(b) == IF b THEN "true" ELSE "false"

\* serde_json::to_string of a list of operators without children
RECURSIVE json_operators_from(_, _)
json_operators_from(ops, i) ==
    IF i > Len(ops) THEN ""
    ELSE (IF i > 1 THEN "," ELSE "")
         \o "{\"type\":" \o json_string(ops[i].type)
         \o ",\"operand\":" \o json_string(ops[i].operand)
         \o ",\"data\":" \o json_string(ops[i].data)
         \o ",\"sensitive\":" \o json_bool(ops[i].sensitive)
         \o ",\"list\":[]}"
         \o json_operators_from(ops, i + 1)

json_operators(ops) == "[" \o json_operators_from(ops, 1) \o "]"

\* the children test_make_rule_has_conn expects (app.rs 554-560)
expected_list(conn) ==
    << match_user_id(conn.user_id),
       match_proc_path(conn.process_path),
       match_dst_ip(conn.dst_ip),
       match_dst_port(conn.dst_port),
       match_protocol(conn.protocol) >>

C13_ListRule ==
    \A conn \in Pending :
        LET r == make_rule(current_connection, "Allow", "Once")
        IN /\ r # <<>>
           /\ r[1].operator.type = RuleType_get_str("List")
           /\ r[1].operator.operand = Operand_get_str("List")
           /\ r[1].operator.list = expected_list(conn)
           /\ r[1].operator.data = json_operators(expected_list(conn))
           /\ conn.process_path = "/usr/bin/hello"
                 => r[1].name = "allow-once-simple-via-tui--usr-bin-hello"

NotifyNext ==
    \/ Run
    \/ Len(notif_chans[notification_sender].buf) < MaxBacklog /\ KeyT
    \/ HandleTestNotify
    \/ TestNotifySend
    \/ \E k \in Attaches : NotificationsCall(k)
    \/ \E k \in Attaches : NotificationsAttach(k)
    \/ \E k \in Attaches : ClientRead(k)
    \/ \E k \in Attaches : ClientDisconnect(k)

NotifySpec == Init /\ [][NotifyNext]_vars

(***************************************************************************)
(* C15.  One sender handle is current at every moment, the one installed   *)
(* by the Notifications call that took the mutex last (the placeholder     *)
(* before any did); a send in progress goes through the current handle,    *)
(* and every notification buffered toward a peer was sent through the      *)
(* handle of that peer while it was the current one.                       *)
(***************************************************************************)
C15_NewestAttachWins ==
    /\ IF Attached = 0 THEN notification_sender = 0
       ELSE /\ notification_sender \in Attaches
            /\ notif_calls[notification_sender].nth = Attached
    /\ loop_at.at = "notify_send" => loop_at.via = notification_sender
    /\ \A h \in Handles : \A i \in 1..Len(notif_chans[h].buf) :
          notif_chans[h].buf[i].current = h

\* after a first and then a second call attached, a notification was sent and
\* is buffered toward the second peer only
C15_Witness ==
    /\ Attached = 2
    /\ last = "notify_ok"
    /\ notif_chans[notification_sender].buf # <<>>
    /\ \A h \in Attaches \ {notification_sender} :
          notif_chans[h].rx = "alive" /\ notif_chans[h].buf = <<>>

(***************************************************************************)
(* C16.  A send through a handle whose receiver is gone (the placeholder,  *)
(* or the handle of a peer that disconnected) fails silently: the step     *)
(* that completes it returns the loop to its event channel without a       *)
(* crash, without a retry and without changing any field of App or any     *)
(* channel.                                                                *)
(***************************************************************************)
C16_SendFailureSwallowed ==
    [][(/\ loop_at.at = "notify_send"
        /\ notif_chans[loop_at.via].rx = "dropped"
        /\ loop_at' # loop_at)
       => /\ loop_at' = AtEvents
          /\ last' = "notify_err"
          /\ notif_lock' = "free"
          /\ UNCHANGED <<phase, appState, events, notif_chans, notification_sender,
                         rule_chan, now>>]_vars

\* a send has just failed on the handle of a peer that disconnected, and the
\* loop is back at its event channel
C16_Witness ==
    /\ last = "notify_err"
    /\ phase = "run" /\ loop_at = AtEvents
    /\ notification_sender # 0
    /\ notif_calls[notification_sender].pc = "closed"

(***************************************************************************)
(* NotifyFullSpec: a peer that does not read.  The daemon opens a          *)
(* Notifications call and its peer takes nothing off the stream; the       *)
(* operator keeps pressing T; the daemon opens further calls once the      *)
(* channel of the current one is full.                                     *)
(***************************************************************************)
NotifyFullNext ==
    \/ Run
    \/ KeyT
    \/ HandleTestNotify
    \/ TestNotifySend
    \/ \E k \in Attaches :
          /\ k > 1 => Len(notif_chans[notification_sender].buf)
                            >= Capacity(notification_sender)
          /\ NotificationsCall(k)
    \/ \E k \in Attaches : NotificationsAttach(k)

NotifyFullSpec == Init /\ [][NotifyFullNext]_vars

(***************************************************************************)
(* C17.  The mutex of the notification sender is never held across a       *)
(* suspension point: whoever holds it is not suspended, so the Operator    *)
(* Loop is never suspended inside a send and a Notifications call that     *)
(* waits for the mutex is not kept waiting by a suspended holder.          *)
(***************************************************************************)
C17_NoSuspensionUnderLock ==
    notif_lock = "loop" => ~SendSuspended(loop_at.via)

(***************************************************************************)
(* AlertSpec: the alert queue.  In the first PostWindow seconds the daemon *)
(* posts alerts and the stream of a Notifications call ends; the operator  *)
(* scrolls; ticks arrive while the clock runs past the age at which the    *)
(* alerts are evicted.                                                     *)
(***************************************************************************)
\* seconds between two instants of the clock in AlertSpec
AlertClockSteps == {2, MaxAlertAgeSecs - 1}

MaxAlertTime == PostWindow + MaxAlertAgeSecs + 1

AlertNext ==
    \/ Run
    \/ \E k \in Attaches : k = 1 /\ NotificationsCall(k)
    \/ \E t \in AlertTasks, kind \in AlertKinds :
          now <= PostWindow /\ AlertStamp(t, kind)
    \/ \E t \in AlertTasks : AlertSend(t)
    \/ HandleAlert
    \/ Tick
    \/ KeyUp
    \/ KeyDown
    \/ \E d \in AlertClockSteps : TimePassesUntil(d, MaxAlertTime)

AlertSpec == Init /\ [][AlertNext]_vars

(***************************************************************************)
(* C18.  A tick evicts the front alert of the queue if and only if its     *)
(* age, the time of the tick less its timestamp, is at least 60 seconds:   *)
(* the queue loses its front alert then and is left as it was otherwise.   *)
(* An alert of time t0 is kept by a tick at t0 + 59 and evicted by one at  *)
(* t0 + 61.                                                                *)
(***************************************************************************)
C18_TickEvictsAtSixty ==
    [][last' = "tick" =>
         /\ IF current_alerts # <<>> /\ now >= Head(current_alerts).timestamp + 60
            THEN current_alerts' = Tail(current_alerts)
            ELSE current_alerts' = current_alerts
         /\ (current_alerts # <<>> /\ now = Head(current_alerts).timestamp + 59)
               => current_alerts' = current_alerts
         /\ (current_alerts # <<>> /\ now = Head(current_alerts).timestamp + 61)
               => current_alerts' = Tail(current_alerts)]_vars

\* a tick at time 61 has just evicted the only alert, one of time 0
C18_Witness ==
    /\ last = "tick" /\ did_work
    /\ now = 61
    /\ current_alerts = <<>> /\ events = <<>>
    /\ alert_tasks[1].pc = "sent" /\ alert_tasks[2].pc = "idle"

(***************************************************************************)
(* C19.  The alert queue is ordered by age in every reachable state: the   *)
(* timestamps do not decrease from front to back.                          *)
(***************************************************************************)
C19_QueueSortedByTimestamp ==
    \A i \in 1..Len(current_alerts) : \A j \in i..Len(current_alerts) :
        current_alerts[i].timestamp <= current_alerts[j].timestamp

(***************************************************************************)
(* C20.  The render offset is a valid position of the alert queue in every *)
(* reachable state: less than the length of the queue, or 0 when the queue *)
(* is empty.                                                               *)
(***************************************************************************)
C20_OffsetValid ==
    IF current_alerts = <<>> THEN alert_list_render_offset = 0
    ELSE alert_list_render_offset < Len(current_alerts)

\* a tick has just evicted the front alert while the offset was at the back
\* of a queue of three, and the offset is at the back of the queue of two
C20_Witness ==
    /\ last = "tick" /\ did_work
    /\ Len(current_alerts) = 2
    /\ alert_list_render_offset = 1
    /\ \A t \in AlertTasks : t <= 3 => alert_tasks[t].pc = "sent"

(***************************************************************************)
(* EventSpec: the event channel and the Operator Loop.  The daemon asks    *)
(* about a connection, pings and posts an alert; the operator decides,     *)
(* presses T and quits; ticks arrive.  The clock stands still.             *)
(***************************************************************************)
EventInit == AppNew(TempRuleLifetimes, {30}, TermWidths)

EventNext ==
    \/ Run
    \/ Tick
    \/ \E k \in KeysPressed : KeyDecision(k)
    \/ KeyCtrlC
    \/ KeyT
    \/ HandleAskRule
    \/ HandleAlert
    \/ HandleUpdate
    \/ HandleTestNotify
    \/ TestNotifySend
    \/ HandleQuit
    \/ \E c \in Calls, conn \in AskedConnections : c = 1 /\ AskRuleArrive(c, conn)
    \/ \E u \in UnaryCalls, request \in PingRequests : UnaryArrive(u, "ping", request)
    \/ \E u \in UnaryCalls : Ping(u)
    \/ \E t \in AlertTasks : t = 1 /\ AlertStamp(t, "post_alert")
    \/ \E t \in AlertTasks : AlertSend(t)

EventSpec == EventInit /\ [][EventNext]_vars

(***************************************************************************)
(* C21.  The Operator Loop handles the events one at a time in the order   *)
(* they were put on the event channel.  The channel changes only by an     *)
(* event added at its back or by its front event taken, and the front      *)
(* event is taken only by the loop while it waits on the channel, that is  *)
(* after the handling of the event before it is over, in a step that       *)
(* applies the change of that event and of no other; and no change of an   *)
(* event is applied without that event being taken from the front, so no   *)
(* event is skipped and none is applied twice.                             *)
(***************************************************************************)
\* the step applies the state change of event e and of no other kind of event
Applies(e) ==
    /\ IF e.type = "AskRule" THEN current_connection' = <<e.evt>>
       ELSE current_connection' = current_connection
    /\ IF e.type = "Alert" THEN current_alerts' = Append(current_alerts, e.alert)
       ELSE current_alerts' = current_alerts
    /\ IF e.type = "Update"
       THEN rx_pings' = rx_pings + 1 /\ current_stats' = <<e.stats>>
       ELSE UNCHANGED <<rx_pings, current_stats>>
    /\ IF e.type = "TestNotify" THEN loop_at'.at = "notify_send"
       ELSE loop_at' = loop_at
    /\ IF e.type = "Quit" THEN running' = FALSE ELSE running' = running

\* the step takes the front event of the channel
TakesFront == events # <<>> /\ events' = Tail(events)

C21_EventsInOrder ==
    [][/\ events' # events =>
            \/ /\ Len(events') = Len(events) + 1
               /\ SubSeq(events', 1, Len(events)) = events
            \/ TakesFront /\ LoopWaiting /\ Applies(Head(events))
       /\ Len(current_alerts') > Len(current_alerts)
             => TakesFront /\ Head(events).type = "Alert"
       /\ (current_connection' # current_connection /\ current_connection' # <<>>)
             => TakesFront /\ Head(events).type = "AskRule"
       /\ rx_pings' # rx_pings => TakesFront /\ Head(events).type = "Update"
       /\ running' # running => TakesFront /\ Head(events).type = "Quit"
       /\ (loop_at.at = "events" /\ loop_at'.at = "notify_send")
             => TakesFront /\ Head(events).type = "TestNotify"]_vars

\* the connection asked about and a ping were handled in the order they came
\* while the alert posted after them waits behind a test notification whose
\* send is under way
C21_Witness ==
    /\ current_connection # <<>>
    /\ rx_pings = 1
    /\ loop_at.at = "notify_send"
    /\ events # <<>> /\ Head(events).type = "Alert"
    /\ current_alerts = <<>>

(***************************************************************************)
(* C23.  The received-ping counter never decreases; a step of the Operator *)
(* Loop that handles a statistics update adds one to it and no other step, *)
(* be it another event, a tick or a key press, changes it; so it equals    *)
(* the number of statistics updates handled, which is the number of Ping   *)
(* calls that sent one less the updates still on the event channel.        *)
(***************************************************************************)
HandlesUpdate ==
    LoopWaiting /\ TakesFront /\ Head(events).type = "Update"

UpdatesWaiting == Cardinality({i \in 1..Len(events) : events[i].type = "Update"})

UpdatesSent ==
    Cardinality({u \in UnaryCalls : unary_calls[u].rpc = "ping" /\ unary_calls[u].sent = 1})

C23_PingCounter ==
    /\ [][/\ rx_pings' >= rx_pings
          /\ rx_pings' = IF HandlesUpdate THEN rx_pings + 1 ELSE rx_pings]_vars
    /\ [](rx_pings = UpdatesSent - UpdatesWaiting)

\* two statistics updates have been handled and a tick has followed
C23_Witness ==
    /\ rx_pings = 2
    /\ last = "tick"
    /\ current_stats # <<>>
    /\ UpdatesWaiting = 0

(***************************************************************************)
(* RpcSpec: the five calls of the daemon.  The daemon asks about a         *)
(* connection, which the Operator Loop presents, pings, subscribes, posts  *)
(* an alert and opens a Notifications call whose inbound stream carries    *)
(* replies and ends.  The clock stands still.                              *)
(***************************************************************************)
RpcInit == AppNew(TempRuleLifetimes, {30}, TermWidths)

RpcNext ==
    \/ Run
    \/ HandleAskRule
    \/ \E c \in Calls, conn \in AskedConnections : c = 1 /\ AskRuleArrive(c, conn)
    \/ \E c \in Calls : AskRuleLock(c)
    \/ \E u \in UnaryCalls, request \in PingRequests : UnaryArrive(u, "ping", request)
    \/ \E u \in UnaryCalls, request \in SubscribeRequests :
          UnaryArrive(u, "subscribe", request)
    \/ \E u \in UnaryCalls : Ping(u)
    \/ \E u \in UnaryCalls : Subscribe(u)
    \/ \E t \in AlertTasks : t = 1 /\ AlertStamp(t, "post_alert")
    \/ \E t \in AlertTasks : AlertSend(t)
    \/ \E k \in Attaches : k = 1 /\ NotificationsCall(k)
    \/ \E k \in Attaches : NotificationsAttach(k)
    \/ \E k \in Attaches, item \in InboundItems :
          (item.tag = "msg" => item.data # "rule not found") /\ ReaderMessage(k, item)
    \/ \E k \in Attaches : ReaderSend(k)

RpcSpec == RpcInit /\ [][RpcNext]_vars

(***************************************************************************)
(* C22 as stated.  Every call of the daemon, of whichever of the five      *)
(* kinds, puts exactly one event on the event channel: a Ping or Subscribe *)
(* call that has returned has sent one, a Notifications call that has      *)
(* returned its stream has had one sent for it, the step in which an       *)
(* AskRule call is taken up adds one event, and so does the send of a      *)
(* PostAlert call.                                                         *)
(***************************************************************************)
\* the step adds exactly one event at the back of the event channel
AddsOneEvent ==
    Len(events') = Len(events) + 1 /\ SubSeq(events', 1, Len(events)) = events

AskRuleTakenUp(c) == calls[c].pc = "idle" /\ calls'[c].pc # "idle"

PostAlertSends(t) ==
    /\ alert_tasks[t].kind = "post_alert"
    /\ alert_tasks[t].pc = "stamped"
    /\ alert_tasks'[t].pc = "sent"

C22_OneEventPerCall ==
    /\ [](\A u \in UnaryCalls : unary_calls[u].pc = "done" => unary_calls[u].sent = 1)
    /\ [](\A k \in Attaches : notif_calls[k].pc = "streaming" => readers[k].sent = 1)
    /\ [][(\E c \in Calls : AskRuleTakenUp(c)) => AddsOneEvent]_vars
    /\ [][(\E t \in AlertTasks : PostAlertSends(t)) => AddsOneEvent]_vars

(***************************************************************************)
(* C22 as amended.  A Ping call that carries statistics puts exactly one   *)
(* event on the event channel, the statistics update, in the step that     *)
(* returns its reply, and a Ping call without statistics puts none; an     *)
(* AskRule call puts exactly one, when it is taken up, and a PostAlert     *)
(* call exactly one; a Subscribe call puts none; a Notifications call puts *)
(* none while it is served: the events of its stream are those of its      *)
(* reader task.  No other step of a handler changes the channel.           *)
(***************************************************************************)
UnaryReturns(u) == unary_calls[u].pc = "arrived" /\ unary_calls'[u].pc # "arrived"

C22_EventsPerCall ==
    /\ [](\A u \in UnaryCalls :
            /\ unary_calls[u].pc \in {"idle", "arrived", "panicked"}
                  => unary_calls[u].sent = 0
            /\ unary_calls[u].pc = "done"
                  => unary_calls[u].sent = IF unary_calls[u].rpc = "ping" THEN 1 ELSE 0
            /\ unary_calls[u].pc = "panicked"
                  => unary_calls[u].rpc = "ping" /\ unary_calls[u].request[1].stats = <<>>)
    /\ [][\A u \in UnaryCalls :
            UnaryReturns(u) =>
                IF unary_calls[u].rpc = "ping" /\ unary_calls[u].request[1].stats # <<>>
                THEN /\ AddsOneEvent
                     /\ events'[Len(events')] =
                           [type |-> "Update",
                            stats |-> unary_calls[u].request[1].stats[1]]
                ELSE events' = events]_vars
    /\ [][\A c \in Calls :
            /\ AskRuleTakenUp(c)
                  => /\ AddsOneEvent
                     /\ events'[Len(events')].type = "AskRule"
                     /\ events'[Len(events')].evt.req = c
            /\ (calls'[c] # calls[c] /\ ~AskRuleTakenUp(c)) => events' = events]_vars
    /\ [][\A t \in AlertTasks :
            /\ PostAlertSends(t)
                  => AddsOneEvent /\ events'[Len(events')].type = "Alert"
            /\ (alert_tasks'[t] # alert_tasks[t] /\ ~PostAlertSends(t))
                  => events' = events]_vars
    /\ [][\A k \in Attaches : notif_calls'[k] # notif_calls[k] => events' = events]_vars

\* the five calls have been made and three events wait on the channel: the
\* connection asked about, the statistics of the ping and the alert posted,
\* none for the Subscribe call that returned nor for the Notifications call
\* that returned its stream
C22_Witness ==
    /\ Len(events) = 3
    /\ {events[i].type : i \in 1..Len(events)} = {"AskRule", "Update", "Alert"}
    /\ calls[1].pc = "waiting"
    /\ alert_tasks[1].pc = "sent"
    /\ \E u, v \in UnaryCalls :
          /\ unary_calls[u].pc = "done" /\ unary_calls[u].rpc = "ping"
          /\ unary_calls[v].pc = "done" /\ unary_calls[v].rpc = "subscribe"
    /\ notif_calls[1].pc = "streaming"
    /\ readers[1].sent = 0

(***************************************************************************)
(* C24.  A waiting AskRule call does not block the other calls.  In every  *)
(* state, those with a disposition pending and its call waiting for the    *)
(* decision included, the handler of a Ping or Subscribe call that has     *)
(* arrived can run, and so can the send of a PostAlert call; the step in   *)
(* which it runs returns the reply, the request's id for Ping and          *)
(* PostAlert and the request with its config rewritten for Subscribe,      *)
(* whether or not the Operator Loop has handled the event.                 *)
(***************************************************************************)
C24_OtherCallsNotBlocked ==
    /\ \A u \in UnaryCalls :
          /\ (unary_calls[u].pc = "arrived" /\ unary_calls[u].rpc = "ping")
                => ENABLED Ping(u)
          /\ (unary_calls[u].pc = "arrived" /\ unary_calls[u].rpc = "subscribe")
                => ENABLED Subscribe(u)
          /\ (unary_calls[u].pc = "done" /\ unary_calls[u].rpc = "ping")
                => unary_calls[u].reply = <<[id |-> unary_calls[u].request[1].id]>>
          /\ (unary_calls[u].pc = "done" /\ unary_calls[u].rpc = "subscribe")
                => /\ unary_calls[u].reply # <<>>
                   /\ unary_calls[u].reply[1].id = unary_calls[u].request[1].id
    /\ \A t \in AlertTasks :
          /\ alert_tasks[t].pc = "stamped" => ENABLED AlertSend(t)
          /\ (alert_tasks[t].pc = "sent" /\ alert_tasks[t].kind = "post_alert")
                => alert_tasks[t].reply = <<[id |-> PostedAlert.id]>>

\* while the connection asked about is pending and its call waits for the
\* decision, a Ping, a Subscribe and a PostAlert call have returned their
\* replies, and the events of the Ping and the PostAlert are still on the
\* event channel
C24_Witness ==
    /\ calls[1].pc = "waiting" /\ recv_lock = 1
    /\ current_connection # <<>> /\ current_connection[1].req = 1
    /\ \E u, v \in UnaryCalls :
          /\ unary_calls[u].rpc = "ping" /\ unary_calls[u].reply = <<[id |-> 7]>>
          /\ unary_calls[v].rpc = "subscribe" /\ unary_calls[v].reply # <<>>
    /\ alert_tasks[1].reply = <<[id |-> 5]>>
    /\ {events[i].type : i \in 1..Len(events)} = {"Update", "Alert"}

(***************************************************************************)
(* StreamSpec: the inbound streams of the Notifications calls.  The daemon *)
(* opens the calls, puts replies on the stream of its first call, ends the *)
(* streams or lets them fail, and the Operator Loop takes the alerts; the  *)
(* clock advances.                                                         *)
(***************************************************************************)
StreamNext ==
    \/ Run
    \/ HandleAlert
    \/ \E k \in Attaches : NotificationsCall(k)
    \/ \E k \in Attaches : NotificationsAttach(k)
    \/ \E k \in Attaches, item \in InboundItems :
          (k > 1 => item.tag # "msg") /\ ReaderMessage(k, item)
    \/ \E k \in Attaches : ReaderSend(k)
    \/ \E d \in AlertClockSteps : TimePassesUntil(d, PostWindow)

StreamSpec == RpcInit /\ [][StreamNext]_vars

\* a step in which the reader of stream k takes a reply with the code Error
\* off its stream, and one in which it takes a reply with the code Ok
ReadsErrorReply(k) == readers'[k].errors = readers[k].errors + 1

ReadsOkReply(k) ==
    /\ readers'[k].reads = readers[k].reads + 1
    /\ readers'[k].errors = readers[k].errors

\* the step appends exactly the event e to the event channel
Publishes(e) == events' = Append(events, e)

\* the step appends nothing to the event channel
PublishesNothing == Len(events') <= Len(events)

\* C26: the reader of a Notifications stream that takes a reply with the error
\* code builds one alert of kind Error and priority Medium whose message is
\* the data of the reply and sends exactly that alert as its next step; a
\* reply with the code Ok makes it send nothing and read on; and what the
\* reader has sent is one event for every error reply, and one more once the
\* stream is over.
C26_ErrorRepliesBecomeAlerts ==
    /\ [][\A k \in Attaches :
             ReadsErrorReply(k) =>
                /\ PublishesNothing
                /\ readers'[k].pc = "stamped"
                /\ ~readers'[k].stop
                /\ readers'[k].alert # <<>>
                /\ readers'[k].alert[1].type = "Error"
                /\ readers'[k].alert[1].priority = "Medium"
                /\ readers'[k].alert[1].msg = readers'[k].stream_grpc_event[1].data]_vars
    /\ [][\A k \in Attaches :
             ReadsOkReply(k) =>
                /\ PublishesNothing
                /\ readers'[k].pc = "reading"
                /\ readers'[k].sent = readers[k].sent]_vars
    /\ [][\A k \in Attaches :
             (readers[k].pc = "stamped" /\ readers'[k] # readers[k]) =>
                /\ Publishes([type |-> "Alert", alert |-> readers[k].alert[1],
                              stream |-> k])
                /\ readers'[k].sent = readers[k].sent + 1]_vars
    /\ [][\A k \in Attaches :
             readers'[k].sent # readers[k].sent => readers[k].pc = "stamped"]_vars
    /\ [](\A k \in Attaches :
             readers[k].sent + (IF readers[k].pc = "stamped" THEN 1 ELSE 0)
                = readers[k].errors + (IF readers[k].ended THEN 1 ELSE 0))

\* a stream has carried a reply with the code Ok and one with the code Error,
\* its reader has sent one event, and the alert of the error reply is in the
\* queue of the Operator Loop
C26_Witness ==
    \E k \in Attaches :
       /\ readers[k].pc = "reading"
       /\ readers[k].reads = 2
       /\ readers[k].errors = 1
       /\ readers[k].sent = 1
       /\ ~readers[k].ended
       /\ events = <<>>
       /\ Len(current_alerts) = 1
       /\ current_alerts[1].type = "Error"
       /\ current_alerts[1].priority = "Medium"
       /\ current_alerts[1].msg = "rule not found"

\* a step in which the reader of stream k finds its stream ended or failed
StreamOver(k) == readers'[k].ended /\ ~readers[k].ended

\* C27: when the inbound stream of a Notifications call ends or fails, the
\* reader builds one alert of kind Warning and priority High, sends exactly
\* that alert as its next step and stops; a stopped reader has sent one event
\* besides those of the error replies, it never changes again and no event of
\* its stream is published after it.
C27_StreamEndAlert ==
    /\ [][\A k \in Attaches :
             StreamOver(k) =>
                /\ PublishesNothing
                /\ readers'[k].pc = "stamped"
                /\ readers'[k].alert # <<>>
                /\ readers'[k].alert[1].type = "Warning"
                /\ readers'[k].alert[1].priority = "High"]_vars
    /\ [][\A k \in Attaches :
             (readers[k].ended /\ readers[k].pc = "stamped"
                 /\ readers'[k] # readers[k]) =>
                /\ Publishes([type |-> "Alert", alert |-> readers[k].alert[1],
                              stream |-> k])
                /\ readers'[k].pc = "stopped"]_vars
    /\ [][\A k \in Attaches :
             readers[k].pc = "stopped" =>
                /\ readers'[k] = readers[k]
                /\ Len(events') > Len(events) => events'[Len(events')].stream # k]_vars
    /\ [](\A k \in Attaches :
             readers[k].ended => readers[k].pc \in {"stamped", "stopped"})
    /\ [](\A k \in Attaches :
             readers[k].pc = "stopped" =>
                /\ readers[k].ended
                /\ readers[k].sent = readers[k].errors + 1)

\* a stream that carried one error reply has failed: its reader has sent two
\* events and stopped, and the Operator Loop has queued the warning last
C27_Witness ==
    \E k \in Attaches :
       /\ readers[k].pc = "stopped"
       /\ readers[k].errors = 1
       /\ readers[k].sent = 2
       /\ events = <<>>
       /\ Len(current_alerts) = 2
       /\ current_alerts[2].type = "Warning"
       /\ current_alerts[2].priority = "High"
       /\ current_alerts[2].msg = "gRPC error from daemon: status: Unavailable"

(***************************************************************************)
(* Startup: cli::setup().get_matches() (main.rs 24, cli.rs 3-35) and       *)
(* App::new (main.rs 46-52, app.rs 80-155).  phase is "main" before the    *)
(* arguments are parsed, "args" when App::new is about to be called with   *)
(* them, by main or by another caller such as the tests of app.rs,         *)
(* "usage_error" when the parser has rejected them, "init_failed" when     *)
(* App::new has returned an error, and "new" once the App is made.         *)
(***************************************************************************)
\* str.parse::<SocketAddr>() accepting every string
parse_SocketAddr_ok_any(str) == TRUE

\* str.parse::<SocketAddr>() succeeds (app.rs 96), for the form A.B.C.D:port:
\* four octets of one to three digits without a leading zero and at most 255,
\* and a port whose value fits u16.  The bracketed IPv6 form is not among the
\* strings explored.
parse_SocketAddr_ok(str) ==
    LET IsDigit(ch) == ch \in {"0", "1", "2", "3", "4", "5", "6", "7", "8", "9"}
        DigitValue(ch) ==
            CASE ch = "0" -> 0 [] ch = "1" -> 1 [] ch = "2" -> 2 [] ch = "3" -> 3
              [] ch = "4" -> 4 [] ch = "5" -> 5 [] ch = "6" -> 6 [] ch = "7" -> 7
              [] ch = "8" -> 8 [] ch = "9" -> 9
        AllDigits(t) == Len(t) > 0 /\ \A i \in 1..Len(t) : IsDigit(SubSeq(t, i, i))
        DecimalValue(t) ==
            LET val[n \in 0..Len(t)] ==
                    IF n = 0 THEN 0 ELSE 10 * val[n - 1] + DigitValue(SubSeq(t, n, n))
            IN val[Len(t)]
        IsOctet(t) ==
            /\ AllDigits(t)
            /\ Len(t) <= 3
            /\ Len(t) > 1 => SubSeq(t, 1, 1) # "0"
            /\ DecimalValue(t) <= 255
        IsPort(t) == AllDigits(t) /\ Len(t) <= 5 /\ DecimalValue(t) <= 65535
        Positions(ch) == {i \in 1..Len(str) : SubSeq(str, i, i) = ch}
    IN /\ Cardinality(Positions(":")) = 1
       /\ Cardinality(Positions(".")) = 3
       /\ LET colon == CHOOSE i \in Positions(":") : TRUE
              dots == Positions(".")
              d1 == CHOOSE i \in dots : \A j \in dots : i <= j
              d3 == CHOOSE i \in dots : \A j \in dots : i >= j
              d2 == CHOOSE i \in dots : i # d1 /\ i # d3
          IN /\ d3 < colon
             /\ IsOctet(SubSeq(str, 1, d1 - 1))
             /\ IsOctet(SubSeq(str, d1 + 1, d2 - 1))
             /\ IsOctet(SubSeq(str, d2 + 1, d3 - 1))
             /\ IsOctet(SubSeq(str, d3 + 1, colon - 1))
             /\ IsPort(SubSeq(str, colon + 1, Len(str)))

\* App::new (app.rs 80-155): the error, or the App
App_new(bind_string, default_action_in, temp_rule_lifetime_in, timeout_in) ==
    LET prefix == "unix://"
        is_unix == Len(bind_string) >= Len(prefix)
                      /\ SubSeq(bind_string, 1, Len(prefix)) = prefix
        path == SubSeq(bind_string, Len(prefix) + 1, Len(bind_string))
    IN
    IF is_unix /\ path = ""
    THEN [err |-> <<"Unix socket path cannot be empty">>, app |-> <<>>]
    ELSE IF ~is_unix /\ ~parse_SocketAddr_ok(bind_string)
    THEN [err |-> <<"Error parsing bind address '" \o bind_string
                       \o "' : invalid socket address syntax">>,
          app |-> <<>>]
    ELSE IF DefaultAction_new(default_action_in) = <<>>
    THEN [err |-> <<"Invalid default action: " \o default_action_in>>, app |-> <<>>]
    ELSE IF Duration_new(temp_rule_lifetime_in) = <<>>
    THEN [err |-> <<"Invalid temporary rule lifetime: " \o temp_rule_lifetime_in>>,
          app |-> <<>>]
    ELSE IF timeout_in > MaxDispositionTimeout
    THEN [err |-> <<"Connection disposition timeout " \o u32_to_string(timeout_in)
                       \o " cannot be over 115">>,
          app |-> <<>>]
    ELSE [err |-> <<>>,
          app |-> <<[running |-> TRUE,
                     rx_pings |-> 0,
                     current_stats |-> <<>>,
                     current_alerts |-> <<>>,
                     alert_list_render_offset |-> 0,
                     notification_sender |-> 0,
                     current_connection |-> <<>>,
                     rule_sender |-> "dummy",
                     default_action |-> DefaultAction_new(default_action_in)[1],
                     temp_rule_lifetime |-> Duration_new(temp_rule_lifetime_in)[1],
                     connection_disposition_timeout |-> timeout_in,
                     buttons |-> <<>>]>>]

\* cli::setup().get_matches() accepts the arguments (cli.rs 8-33): the timeout
\* is parsed by value_parser!(u64).range(1..115), a range without its end
\* (cli.rs 18), the lifetime is one of the strings of cli.rs 30, and the bind
\* address and the default action are any strings
cli_accepts(m) ==
    /\ m.dispo_seconds >= 1 /\ m.dispo_seconds < 115
    /\ m.temp_rule_lifetime \in
          {"until restart", "always", "once", "12h", "1h", "30m", "15m", "5m", "30s"}

\* main.rs 24: the arguments are parsed; the parser ends the process on those
\* it rejects
CliParse ==
    /\ phase = "main"
    /\ IF cli_accepts(matches)
       THEN phase' = "args" /\ UNCHANGED init_error
       ELSE phase' = "usage_error" /\ init_error' = <<"usage">>
    /\ last' = NoOp
    /\ did_work' = FALSE
    /\ UNCHANGED <<now, running, draw_needed, cfgVars, matches, default_action, statVars,
                   unary_calls, readers, notifVars, alert_tasks, events,
                   current_connection, alertVars, buttons, rule_sender, rule_chan,
                   serverVars>>

\* main.rs 46-52 and app.rs 80-155: App::new is called with the arguments
AppNewCall ==
    /\ phase = "args"
    /\ LET r == App_new(matches.ip_port, matches.default_action,
                        matches.temp_rule_lifetime, matches.dispo_seconds)
       IN IF r.app = <<>>
          THEN /\ phase' = "init_failed"
               /\ init_error' = r.err
               /\ UNCHANGED <<running, rx_pings, current_stats, current_alerts,
                              alert_list_render_offset, notification_sender,
                              current_connection, rule_sender, default_action,
                              temp_rule_lifetime, connection_disposition_timeout,
                              buttons>>
          ELSE /\ phase' = "new"
               /\ init_error' = <<>>
               /\ running' = r.app[1].running
               /\ rx_pings' = r.app[1].rx_pings
               /\ current_stats' = r.app[1].current_stats
               /\ current_alerts' = r.app[1].current_alerts
               /\ alert_list_render_offset' = r.app[1].alert_list_render_offset
               /\ notification_sender' = r.app[1].notification_sender
               /\ current_connection' = r.app[1].current_connection
               /\ rule_sender' = r.app[1].rule_sender
               /\ default_action' = r.app[1].default_action
               /\ temp_rule_lifetime' = r.app[1].temp_rule_lifetime
               /\ connection_disposition_timeout' =
                     r.app[1].connection_disposition_timeout
               /\ buttons' = r.app[1].buttons
    /\ last' = NoOp
    /\ did_work' = FALSE
    /\ UNCHANGED <<now, draw_needed, term_width, matches, unary_calls, readers,
                   loop_at, notif_lock, notif_chans, notif_calls, alert_tasks,
                   events, rule_chan, serverVars>>

(***************************************************************************)
(* StartSpec: startup on every combination of the arguments explored,      *)
(* through the parser of the command line or by a direct call of App::new, *)
(* and, once the server runs, the Subscribe calls of the daemon.           *)
(***************************************************************************)
StartArgs ==
    [ip_port : {"127.0.0.1:50051", "unix:///tmp/osui.sock", "unix://",
                "localhost:50051", "127.0.0.1", "256.0.0.1:50051"},
     default_action : {"allow", "deny", "reject", "drop"},
     temp_rule_lifetime : {"12h", "30s", "2h"},
     dispo_seconds : {0, 1, 30, 114, 115, 116}]

StartInit ==
    /\ phase \in {"main", "args"}
    /\ matches \in StartArgs
    /\ init_error = <<>>
    /\ now = 0
    /\ running = FALSE
    /\ draw_needed = TRUE
    /\ term_width \in TermWidths
    /\ connection_disposition_timeout = 0
    /\ temp_rule_lifetime = ""
    /\ default_action = ""
    /\ events = <<>>
    /\ current_connection = <<>>
    /\ current_alerts = <<>>
    /\ alert_list_render_offset = 0
    /\ buttons = <<>>
    /\ rule_sender = "none"
    /\ rule_chan = <<>>
    /\ recv_lock = 0
    /\ calls = [c \in Calls |-> IdleCall]
    /\ did_work = FALSE
    /\ last = "-"
    /\ loop_at = AtEvents
    /\ notification_sender = 0
    /\ notif_lock = "free"
    /\ notif_chans = [h \in Handles |->
                        [buf |-> <<>>, rx |-> IF h = 0 THEN "dropped" ELSE "none"]]
    /\ notif_calls = [k \in Attaches |-> IdleStream]
    /\ alert_tasks = [t \in AlertTasks |-> IdleTask]
    /\ rx_pings = 0
    /\ current_stats = <<>>
    /\ unary_calls = [u \in UnaryCalls |-> IdleUnary]
    /\ readers = [k \in Attaches |-> IdleReader]

StartNext ==
    \/ CliParse
    \/ AppNewCall
    \/ Run
    \/ \E u \in UnaryCalls, request \in SubscribeRequests :
          UnaryArrive(u, "subscribe", request)
    \/ \E u \in UnaryCalls : Subscribe(u)

StartSpec == StartInit /\ [][StartNext]_vars

\* a step in which the Subscribe handler of call u runs and returns
SubscribeReturns(u) ==
    /\ unary_calls[u].rpc = "subscribe"
    /\ unary_calls[u].pc = "arrived"
    /\ unary_calls'[u].pc # "arrived"

\* C25: the reply of Subscribe equals the request in every field but config,
\* config is the JSON object whose only key is DefaultAction with the default
\* action string given at startup, and the step of Subscribe changes nothing
\* of the application: no event, no field of the App, no channel.
C25_SubscribeReply ==
    /\ [](\A u \in UnaryCalls :
             (unary_calls[u].rpc = "subscribe" /\ unary_calls[u].pc = "done") =>
                LET request == unary_calls[u].request[1]
                    reply == unary_calls[u].reply[1]
                IN /\ DOMAIN reply = DOMAIN request
                   /\ \A f \in DOMAIN request \ {"config"} : reply[f] = request[f]
                   /\ reply.config =
                        "{\"DefaultAction\":\"" \o matches.default_action \o "\"}")
    /\ [][\A u \in UnaryCalls :
             SubscribeReturns(u) =>
                UNCHANGED <<running, draw_needed, events, current_connection,
                            current_alerts, alert_list_render_offset, buttons,
                            rx_pings, current_stats, default_action,
                            temp_rule_lifetime, connection_disposition_timeout,
                            notification_sender, notif_chans, rule_sender,
                            rule_chan, calls, readers, alert_tasks>>]_vars

\* a Subscribe call whose request carried a configuration of its own has
\* returned on a server started with --default-action reject
C25_Witness ==
    /\ phase = "run"
    /\ matches.default_action = "reject"
    /\ \E u \in UnaryCalls :
          /\ unary_calls[u].rpc = "subscribe"
          /\ unary_calls[u].pc = "done"
          /\ unary_calls[u].request[1].config # ""
          /\ unary_calls[u].reply[1].config = "{\"DefaultAction\":\"reject\"}"

\* C28: with the other arguments valid, startup accepts the disposition timeout
\* exactly when it lies in 1..115, and a rejection is a configuration error
\* reported before any request is served.
C28_TimeoutBounds ==
    /\ ( /\ phase \notin {"main", "args"}
         /\ matches.ip_port \in {"127.0.0.1:50051", "unix:///tmp/osui.sock"}
         /\ matches.default_action \in {"allow", "deny", "reject"}
         /\ matches.temp_rule_lifetime \in {"12h", "30s"} )
       => ( phase \in {"new", "run"}
              <=> (matches.dispo_seconds >= 1 /\ matches.dispo_seconds <= 115) )
    /\ phase \in {"usage_error", "init_failed"} =>
          /\ init_error # <<>>
          /\ \A u \in UnaryCalls : unary_calls[u].pc = "idle"

\* a step in which App::new is called and returns
AppNewReturns == phase = "args" /\ phase' # "args"

\* C29: App::new fails with an error and makes no App when the bind string is
\* unix:// with an empty path or no socket address, when the default action is
\* none of allow, deny and reject, or when the lifetime is none of the nine
\* durations; with every argument valid it succeeds with no pending
\* connection, an empty alert queue, render offset 0 and ping counter 0.
C29_Construction ==
    /\ [][AppNewReturns =>
            LET bad_bind == matches.ip_port \in
                               {"unix://", "localhost:50051", "127.0.0.1",
                                "256.0.0.1:50051"}
                bad_action == matches.default_action \notin {"allow", "deny", "reject"}
                bad_lifetime == matches.temp_rule_lifetime \notin
                                   {"once", "until restart", "always", "30s", "5m",
                                    "15m", "30m", "1h", "12h"}
                timeout_valid == matches.dispo_seconds >= 1
                                    /\ matches.dispo_seconds <= 115
            IN /\ (bad_bind \/ bad_action \/ bad_lifetime) =>
                     /\ phase' = "init_failed"
                     /\ init_error' # <<>>
                     /\ UNCHANGED <<running, rule_sender, default_action,
                                    temp_rule_lifetime,
                                    connection_disposition_timeout>>
               /\ (~bad_bind /\ ~bad_action /\ ~bad_lifetime /\ timeout_valid) =>
                     /\ phase' = "new"
                     /\ init_error' = <<>>
                     /\ running'
                     /\ current_connection' = <<>>
                     /\ current_alerts' = <<>>
                     /\ alert_list_render_offset' = 0
                     /\ rx_pings' = 0]_vars
    /\ [](phase = "init_failed" => ~running /\ rule_sender = "none")

\* App::new has refused the bind string unix://, as in
\* tests::test_unix_socket_empty_path
C29_Witness ==
    /\ phase = "init_failed"
    /\ matches.ip_port = "unix://"
    /\ init_error = <<"Unix socket path cannot be empty">>
    /\ ~running

(***************************************************************************)
(* PendingSpec: the life of a pending disposition.  The daemon opens       *)
(* AskRule calls and may give them up, the operator decides or quits, and  *)
(* the runtime keeps running the tasks that can run, the clock keeps       *)
(* advancing and the ticks of the event source keep arriving at the        *)
(* Operator Loop for as long as it waits for events.                       *)
(***************************************************************************)
PendingNext ==
    \/ Run
    \/ Tick
    \/ \E k \in KeysPressed : KeyDecision(k)
    \/ KeyCtrlC
    \/ HandleAskRule
    \/ HandleQuit
    \/ \E c \in Calls, conn \in AskedConnections :
          now + NCalls * AskRuleTimeoutSecs <= MaxTime /\ AskRuleArrive(c, conn)
    \/ \E c \in Calls : AskRuleLock(c)
    \/ \E c \in Calls : AskRuleRecv(c)
    \/ \E c \in Calls : AskRuleClosed(c)
    \/ \E c \in Calls : AskRuleElapsed(c)
    \/ \E c \in Calls : AskRuleAbandon(c)
    \/ \E d \in ClockSteps : TimePasses(d)

PendingSpec ==
    /\ Init
    /\ [][PendingNext]_vars
    /\ WF_vars(ServerProgress)
    /\ WF_vars(\E d \in ClockSteps : TimePasses(d))
    /\ WF_vars(Tick)

\* the connection of call c is in the pending slot
PendingOf(c) == current_connection # <<>> /\ current_connection[1].req = c

\* C30: while the Operator Loop runs and ticks keep arriving, the connection
\* of every call leaves the pending slot eventually; it leaves by a decision
\* of the operator, by a tick at or after its expiry or by the connection of
\* another call replacing it; and a tick at or after the expiry of a pending
\* connection whose call was given up or has returned leaves the slot empty
\* and no button drawn.
C30_PendingRemoved ==
    /\ \A c \in Calls : PendingOf(c) ~> (~PendingOf(c) \/ phase # "run")
    /\ [][\A c \in Calls :
            (PendingOf(c) /\ ~PendingOf(c)') =>
               \/ last' \in {"key", "click"} /\ current_connection' = <<>>
               \/ /\ last' = "tick"
                  /\ now >= current_connection[1].expiry_ts
                  /\ current_connection' = <<>>
               \/ /\ last' = "event"
                  /\ current_connection' # <<>>
                  /\ current_connection'[1].req # c]_vars
    /\ [][\A c \in Calls :
            ( /\ last' = "tick"
              /\ PendingOf(c)
              /\ calls[c].pc \in {"abandoned", "done"}
              /\ now >= current_connection[1].expiry_ts )
               => current_connection' = <<>> /\ buttons' = <<>>]_vars

\* the daemon gave up its only call, the connection stayed in the pending
\* slot, and the tick at its expiry has just cleared it
C30_Witness ==
    /\ last = "tick" /\ did_work
    /\ current_connection = <<>> /\ buttons = <<>> /\ events = <<>>
    /\ calls[1].pc = "abandoned"
    /\ \A c \in Calls \ {1} : calls[c].pc = "idle"
    /\ phase = "run"

(***************************************************************************)
(* C31.  The rule an AskRule call returns was made from the connection     *)
(* descriptor that call carried, whatever the interleaving of the calls,   *)
(* the decisions of the operator and the ticks.                            *)
(***************************************************************************)
C31_RuleFromOwnConnection ==
    [][\A c \in Calls :
          ( /\ calls[c].pc = "waiting"
            /\ calls'[c].pc = "done"
            /\ calls'[c].reply[1].rule # <<>> )
             => calls'[c].reply[1].rule[1].conn = calls[c].conn[1]]_vars

(***************************************************************************)
(* C32.  The Operator Loop never panics in send_rule: whenever the loop    *)
(* can take a decision of the operator on a pending connection, the        *)
(* decision channel is empty, so that try_send succeeds.  (The receiver of *)
(* the channel lives in the server for the whole run.)                     *)
(***************************************************************************)
C32_DecisionNeverPanics ==
    /\ phase # "panicked"
    /\ (LoopWaiting /\ current_connection # <<>>) => try_send_ok(rule_chan)

(***************************************************************************)
(* C33.  A tick removes at most one alert, the front one.  When it removes *)
(* it, the render offset goes down by one, not below 0, if it was the last *)
(* index of the queue before the removal, and stays as it was otherwise; a *)
(* tick that removes nothing leaves the queue and the offset as they were. *)
(***************************************************************************)
C33_EvictionAdjustsOffset ==
    [][last' = "tick" =>
         LET n == Len(current_alerts) IN
         \/ /\ current_alerts' = current_alerts
            /\ alert_list_render_offset' = alert_list_render_offset
         \/ /\ n > 0
            /\ current_alerts' = Tail(current_alerts)
            /\ alert_list_render_offset' =
                  IF alert_list_render_offset = n - 1
                  THEN (IF alert_list_render_offset = 0 THEN 0
                        ELSE alert_list_render_offset - 1)
                  ELSE alert_list_render_offset]_vars

\* a tick has just evicted the front alert of a queue of three while the
\* offset was on the first, not the last index: the offset is as it was
C33_Witness ==
    /\ last = "tick" /\ did_work
    /\ Len(current_alerts) = 2
    /\ alert_list_render_offset = 0
    /\ \A t \in AlertTasks : t <= 3 => alert_tasks[t].pc = "sent"

(***************************************************************************)
(* LoopSpec: the steps of the Operator Loop on every kind of input.  The   *)
(* daemon asks about a connection, pings and posts alerts in the first     *)
(* PostWindow seconds, the operator presses Up and Down, ticks arrive and  *)
(* the clock advances until the alerts are old; nobody decides.            *)
(***************************************************************************)
LoopNext ==
    \/ Run
    \/ Tick
    \/ KeyUp
    \/ KeyDown
    \/ HandleAskRule
    \/ HandleAlert
    \/ HandleUpdate
    \/ \E c \in Calls, conn \in AskedConnections :
          c = 1 /\ now <= PostWindow /\ AskRuleArrive(c, conn)
    \/ \E c \in Calls : AskRuleLock(c)
    \/ \E c \in Calls : AskRuleElapsed(c)
    \/ \E u \in UnaryCalls, request \in PingRequests :
          u = 1 /\ request.stats # <<>> /\ UnaryArrive(u, "ping", request)
    \/ \E u \in UnaryCalls : Ping(u)
    \/ \E t \in AlertTasks :
          t <= 2 /\ now <= PostWindow /\ AlertStamp(t, "post_alert")
    \/ \E t \in AlertTasks : AlertSend(t)
    \/ \E d \in AlertClockSteps : TimePassesUntil(d, MaxAlertTime)

LoopSpec == EventInit /\ [][LoopNext]_vars

(***************************************************************************)
(* C34.  tick returns true exactly when, in that invocation, it cleared an *)
(* expired pending connection or evicted an alert, and false exactly when  *)
(* it changed no state.                                                    *)
(***************************************************************************)
C34_TickReportsWork ==
    [][last' = "tick" =>
         LET cleared == /\ current_connection # <<>>
                        /\ now >= current_connection[1].expiry_ts
                        /\ current_connection' = <<>>
             evicted == /\ current_alerts # <<>>
                        /\ current_alerts' = Tail(current_alerts)
         IN /\ did_work' <=> (cleared \/ evicted)
            /\ ~did_work' <=> UNCHANGED <<current_connection, current_alerts,
                                          alert_list_render_offset, running,
                                          rx_pings, current_stats, rule_chan,
                                          rule_sender, notification_sender>>]_vars

\* a tick a minute after the start has just returned true: the one alert
\* posted is gone, nothing is pending, and the call has timed out
C34_Witness ==
    /\ last = "tick" /\ did_work
    /\ now >= MaxAlertAgeSecs
    /\ current_connection = <<>> /\ current_alerts = <<>> /\ events = <<>>
    /\ buttons = <<>>
    /\ calls[1].pc = "done"
    /\ alert_tasks[1].pc = "sent"
    /\ alert_tasks[2].pc = "idle"

(***************************************************************************)
(* EvictSpec: alerts are posted in the first PostWindow seconds and reach  *)
(* the queue at any time after that, in any number between two ticks.      *)
(* Fairness: the event source keeps delivering ticks to the running loop   *)
(* and time advances (up to MaxAlertTime, when every alert is old).        *)
(***************************************************************************)
EvictNext ==
    \/ Run
    \/ \E t \in AlertTasks : now <= PostWindow /\ AlertStamp(t, "post_alert")
    \/ \E t \in AlertTasks : AlertSend(t)
    \/ HandleAlert
    \/ Tick
    \/ KeyDown
    \/ \E d \in AlertClockSteps : TimePassesUntil(d, MaxAlertTime)

EvictSpec ==
    /\ EventInit
    /\ [][EvictNext]_vars
    /\ WF_vars(Tick)
    /\ WF_vars(\E d \in AlertClockSteps : TimePassesUntil(d, MaxAlertTime))

\* an alert posted at time t is in the queue
Queued(t) ==
    \E i \in 1..Len(current_alerts) :
       current_alerts[i] = new_alert("post_alert", t)

(***************************************************************************)
(* C35.  Every alert appended to the queue is eventually evicted, when     *)
(* ticks keep occurring and time advances, also when several alerts arrive *)
(* between two ticks; the queue loses alerts only by eviction, the front   *)
(* one and at most one per tick.                                           *)
(***************************************************************************)
C35_AlertsEvicted ==
    /\ \A t \in 0..PostWindow : Queued(t) ~> ~Queued(t)
    /\ current_alerts # <<>> ~> current_alerts = <<>>
    /\ [][Len(current_alerts') < Len(current_alerts) =>
            /\ last' = "tick"
            /\ current_alerts' = Tail(current_alerts)]_vars

\* a tick has just evicted the last of the three alerts posted, at the first
\* moment at which an alert posted at the end of the window is old enough
C35_Witness ==
    /\ last = "tick" /\ did_work
    /\ current_alerts = <<>> /\ events = <<>>
    /\ \A t \in AlertTasks : t <= 3 => alert_tasks[t].pc = "sent"
    /\ alert_list_render_offset = 0
    /\ now = PostWindow + MaxAlertAgeSecs

\* call c is polling the decision channel under the receiver lock
Receiving(c) == calls[c].pc = "waiting"

(***************************************************************************)
(* C36.  At most one AskRule call at a time is receiving from the decision *)
(* channel.  A call publishes its event at once on arrival, also while     *)
(* another call is receiving; it starts to receive only when no other call *)
(* is receiving, the one that held the receiver having ended, and its      *)
(* deadline timer starts at that moment, not at its arrival.               *)
(***************************************************************************)
C36_OneReceiver ==
    /\ [](Cardinality({c \in Calls : Receiving(c)}) <= 1)
    /\ [](\A c \in Calls : Receiving(c) <=> recv_lock = c)
    /\ [][\A c \in Calls :
            /\ (calls[c].pc = "idle" /\ calls'[c].pc # "idle") =>
                  /\ calls'[c].pc = "locking"
                  /\ Len(events') = Len(events) + 1
                  /\ events'[Len(events')].type = "AskRule"
                  /\ events'[Len(events')].evt.connection = calls'[c].conn[1]
            /\ (~Receiving(c) /\ Receiving(c)') =>
                  /\ calls[c].pc = "locking"
                  /\ \A d \in Calls \ {c} : ~Receiving(d)
                  /\ calls'[c].deadline = now + AskRuleTimeoutSecs
                  /\ calls'[c].arrival = calls[c].arrival]_vars

\* the second call arrived while the first was receiving, sent its event
\* then, and receives now, after the first has returned, with a deadline
\* later than fifteen seconds after its arrival
C36_Witness ==
    /\ calls[1].pc = "done"
    /\ Receiving(2) /\ calls[2].contended
    /\ calls[2].deadline > calls[2].arrival + AskRuleTimeoutSecs

\* the event the loop takes in this step is of type ty
Takes(ty) == last' = "event" /\ events # <<>> /\ Head(events).type = ty

\* the fields of App outside the statistics, the alerts and the pending slot
\* (the buttons are what the draw at the end of the iteration makes of the
\* pending slot)
restOfApp == <<running, rule_sender, rule_chan, notification_sender,
               default_action, temp_rule_lifetime,
               connection_disposition_timeout>>

(***************************************************************************)
(* C37.  Each step of the Operator Loop changes only its own part of the   *)
(* state: an Update event only the ping counter and the latest statistics, *)
(* an Alert event only the queue, by one alert at its back, an AskRule     *)
(* event only the pending slot (and the buttons drawn for it), the Up and  *)
(* Down keys only the render offset, by at most one and never beyond the   *)
(* queue.                                                                  *)
(***************************************************************************)
C37_StepsKeepTheirFrame ==
    [][/\ Takes("Update") =>
             /\ rx_pings' = rx_pings + 1
             /\ current_stats' = <<Head(events).stats>>
             /\ UNCHANGED <<current_connection, current_alerts,
                            alert_list_render_offset, buttons, restOfApp>>
       /\ Takes("Alert") =>
             /\ current_alerts' = Append(current_alerts, Head(events).alert)
             /\ UNCHANGED <<current_connection, alert_list_render_offset,
                            rx_pings, current_stats, buttons, restOfApp>>
       /\ Takes("AskRule") =>
             /\ current_connection' = <<Head(events).evt>>
             /\ buttons' = update_button_areas(current_connection', term_width)
             /\ UNCHANGED <<current_alerts, alert_list_render_offset,
                            rx_pings, current_stats, restOfApp>>
       /\ last' \in {"key_up", "key_down"} =>
             /\ UNCHANGED <<current_connection, current_alerts, rx_pings,
                            current_stats, buttons, restOfApp, events>>
             /\ alert_list_render_offset' \in
                   {alert_list_render_offset,
                    IF last' = "key_up" THEN alert_list_render_offset - 1
                    ELSE alert_list_render_offset + 1}
             /\ alert_list_render_offset' >= 0
             /\ current_alerts # <<>> =>
                   alert_list_render_offset' <= Len(current_alerts) - 1]_vars

\* Down has just moved the offset to the second of two alerts while a
\* connection is pending and one ping has been counted
C37_Witness ==
    /\ last = "key_down"
    /\ alert_list_render_offset = 1 /\ Len(current_alerts) = 2
    /\ current_connection # <<>> /\ Len(buttons) = 4
    /\ rx_pings = 1 /\ current_stats # <<>>
    /\ events = <<>>

\* the key each on-screen button names in its label (ui.rs 13-16)
ButtonKeys == <<"a", "d", "j", "l">>

(***************************************************************************)
(* C38.  With a connection pending, a left-button release on the button    *)
(* labelled Allow [A], Deny [D], Allow Forever [J] or Deny Forever [L]     *)
(* sends the rule that pressing the key A, D, J or L sends: for A and D an *)
(* allow or deny rule with the configured temporary-rule lifetime, for J   *)
(* and L one with duration always.                                         *)
(***************************************************************************)
C38_ClickSendsKeyRule ==
    [][(last' = "click" /\ Len(rule_chan') = Len(rule_chan) + 1) =>
          LET m == rule_chan'[Len(rule_chan')]
          IN \E b \in 1..Len(buttons) :
                /\ m.action = buttons[b].action
                /\ m.duration = buttons[b].duration
                /\ m.rule = make_rule(current_connection,
                                      KeyAction(ButtonKeys[b]),
                                      KeyDuration(ButtonKeys[b]))[1]]_vars

====
